---- MODULE Spec2Model ----
(***************************************************************************)
(* PharmaCare Bot: the response pipeline of brain.py (TTL cache, fallback  *)
(* dispatcher, heuristic classifier, planner, blender, entry point).       *)
(*                                                                         *)
(* Python strings are TLA+ strings; the pictographs, dashes and backquotes *)
(* of the source's reply literals are left out or written in ASCII.  A     *)
(* call of a provider adapter or of the hosted language model is one step  *)
(* whose outcome the environment chooses; everything the handler computes  *)
(* between two such calls belongs to the step that precedes it.            *)
(***************************************************************************)
EXTENDS Integers, Sequences, FiniteSets, TLC

VARIABLES
    HF_KEY,          \* brain.py:167  credential of the language model set?
    OWM_KEY,         \* brain.py:169
    WEATHERAPI_KEY,  \* brain.py:170
    WEATHERBIT_KEY,  \* brain.py:171
    now,             \* the reading of time.time()
    _cache,          \* TTLCache.d of the dispatcher's cache: key -> <<expiry, val>>
                     \* (brain.py:784-795 use _cache without binding it: it is
                     \* taken to be TTLCache(ttl=CACHE_TTL))
    _chat_history,   \* brain.py:934
    pc,              \* where chatbot_response stands ("idle": not running)
    user_text,       \* the argument of the running / last chatbot_response call
    text,            \* its local text
    site,            \* which try_tools_sequence call site is running
    cache_key,       \* try_tools_sequence's local
    arg,             \* the argument handed to the adapters
    chain,           \* adapters still to be tried
    tool_name,       \* local of the call_tool branch
    tool_out,        \* local of the call_tool branch, blend_tool_result's argument
    calls,           \* history: <<adapter, what it did>> for every adapter call
                     \* of the running / last message, in order
    hf_calls,        \* history: hf_query_raw requests of the running / last message
    reply,           \* value returned by the last chatbot_response call
    raised,          \* did the last call end with an exception escaping?
    turns,           \* messages received so far
    seq_log,         \* history: the calls of try_tools_sequence so far, in order
    \* _safe_get, brain.py:368-381, taken by itself
    sg_pc,           \* "idle", "get" (before requests.get), "sleep", "done"
    retries,         \* its parameter
    attempt,         \* its loop variable
    statuses,        \* history: what each requests.get of the call did
    sg_ret,          \* the value it returned
    slept,           \* history: quarter seconds spent in time.sleep
    sg_calls,        \* calls of _safe_get so far
    \* class TTLCache, brain.py:340-365, taken by itself (the instance is _cache)
    ops,             \* history: the method calls made on it, with what get returned
    \* heuristic_intent, brain.py:798-877, taken by itself
    h_text,          \* its argument
    h_ret,           \* the value it returned
    \* chatbot_response of Brain.py:228-270, taken by itself
    b_msg,           \* its argument
    b_ret,           \* the function whose value it returned, and that call's argument
    \* chatbot_response / chatbot_response_new of brain_new.py, taken by themselves
    n_msg,           \* the argument
    n_ret,           \* the reply returned
    \* shared_state.py
    state,           \* the rows of the table state: [key, value, expire_at]
    state_log,       \* history: the calls of update_state and get_state
    \* bot.py:13-43: handle_message and the typing threads it starts
    hm_pc,           \* where handle_message stands ("idle": not running)
    hm_msg,          \* the number of the message it handles / handled last
    ty_pc,           \* per message, where its start_typing thread stands
    stop_evt,        \* per message, is its threading.Event set?
    typing_sent,     \* per message, has a typing action been posted?
    \* threads that run the stub entry points of brain.py:34-42, 733-740 and
    \* brain_new.py:45-49, 526-533
    th_pc,           \* per thread, where it stands ("idle": not started)
    th_msg,          \* per thread, its argument message
    th_resp,         \* per thread, its local response
    shared_data,     \* the dict the lock-based stubs write (shared_state.py does
                     \* not define it; taken to be a dict, both keys absent)
    lock,            \* shared_state.py:7: the thread holding it, 0 when free
    \* threads that call the methods of one TTLCache on one key
    rc_pc,           \* per thread, the statement it is about to execute
    rc_expiry,       \* per thread, the expiry its get has read
    rc_d,            \* the dict of the cache
    rc_lost,         \* has the del of a get removed an entry that had not expired?
    rc_ops,          \* the number of method calls started
    \* a TTLCache of brain.py and one of brain_new.py given the same calls
    tw_d,            \* the dict of the cache of brain.py
    tw_new_d,        \* the dict of the cache of brain_new.py
    tw_ret,          \* what the last call returned: <<brain.py, brain_new.py>>
    tw_ops           \* the number of calls made

brain_vars == <<HF_KEY, OWM_KEY, WEATHERAPI_KEY, WEATHERBIT_KEY, now, _cache,
                _chat_history, pc, user_text, text, site, cache_key, arg, chain,
                tool_name, tool_out, calls, hf_calls, reply, raised, turns, seq_log>>

safe_get_vars == <<sg_pc, retries, attempt, statuses, sg_ret, slept, sg_calls>>

(* the variables of the components modelled by themselves, and what a
   step of one of them leaves alone *)
ask_vars == <<h_text, h_ret, b_msg, b_ret, n_msg, n_ret>>

state_vars == <<state, state_log>>

typing_vars == <<hm_pc, hm_msg, ty_pc, stop_evt, typing_sent>>

threads_vars == <<th_pc, th_msg, th_resp, shared_data, lock>>

race_vars == <<rc_pc, rc_expiry, rc_d, rc_lost, rc_ops>>

twin_vars == <<tw_d, tw_new_d, tw_ret, tw_ops>>

later_vars == <<ask_vars, state_vars, typing_vars, threads_vars, race_vars, twin_vars>>

keep_ask == UNCHANGED <<brain_vars, safe_get_vars, ops, state_vars, typing_vars, threads_vars, race_vars, twin_vars>>

keep_state == UNCHANGED <<brain_vars, safe_get_vars, ops, ask_vars, typing_vars, threads_vars, race_vars, twin_vars>>

keep_typing == UNCHANGED <<brain_vars, safe_get_vars, ops, ask_vars, state_vars, threads_vars, race_vars, twin_vars>>

keep_threads == UNCHANGED <<brain_vars, safe_get_vars, ops, ask_vars, state_vars, typing_vars, race_vars, twin_vars>>

keep_race == UNCHANGED <<brain_vars, safe_get_vars, ops, ask_vars, state_vars, typing_vars, threads_vars, twin_vars>>

keep_twin == UNCHANGED <<brain_vars, safe_get_vars, ops, ask_vars, state_vars, typing_vars, threads_vars, race_vars>>

keep_threads_state == UNCHANGED <<brain_vars, safe_get_vars, ops, state_log, ask_vars, typing_vars, race_vars, twin_vars>>

unit_vars == <<safe_get_vars, ops, later_vars>>

vars == <<brain_vars, unit_vars>>

----------------------------------------------------------------------------
(* Bounds of the model *)

MaxTurns == 1    \* messages of a behaviour of Spec
MaxRepeat == 2   \* messages of a behaviour of SpecRepeat
MaxTime == 2     \* the clock stops advancing here
MaxVer == 2      \* distinct answers a provider / the model can give
MaxRetries == 3  \* largest retries argument of _safe_get
MaxSafeGets == 2 \* calls of _safe_get in a behaviour of SpecSafeGet
MaxOps == 3      \* method calls on the cache in a behaviour of SpecCache
CacheMaxSize == 2 \* the maximum size C13 speaks of (no TTLCache of the source has one)
MaxChat == 7     \* messages of a behaviour of SpecChat
MaxStateOps == 3 \* calls of update_state / get_state in a behaviour of SpecState
MaxTwinOps == 3  \* calls of a behaviour of SpecTwin
MaxRaceOps == 3  \* method calls of a behaviour of SpecRace
MaxThreads == 2  \* threads of a behaviour of SpecThreads
MaxMsgs == 2     \* messages handled in a behaviour of SpecTyping

(* BRAIN_CACHE_TTL, brain.py:173, read from the environment (default 300);
   the model runs with BRAIN_CACHE_TTL=2 *)
CACHE_TTL == 2

(* Python's None *)
None == "<None>"

----------------------------------------------------------------------------
(* Python string operations *)

Ch(s, i) == SubSeq(s, i, i)

WS == {" ", "\t", "\n"}

UPPER == "ABCDEFGHIJKLMNOPQRSTUVWXYZ"
LOWER == "abcdefghijklmnopqrstuvwxyz"
DIGITS == "0123456789"

InStr(c, s) == \E i \in 1..Len(s) : Ch(s, i) = c

LowerChar(c) ==
    IF InStr(c, UPPER)
    THEN Ch(LOWER, CHOOSE i \in 1..Len(UPPER) : Ch(UPPER, i) = c)
    ELSE c

RECURSIVE lower(_)
lower(s) == IF s = "" THEN "" ELSE LowerChar(Ch(s, 1)) \o lower(SubSeq(s, 2, Len(s)))

UpperChar(c) ==
    IF InStr(c, LOWER)
    THEN Ch(UPPER, CHOOSE i \in 1..Len(LOWER) : Ch(LOWER, i) = c)
    ELSE c

IsAlpha(c) == InStr(c, UPPER) \/ InStr(c, LOWER)
IsDigit(c) == InStr(c, DIGITS)
IsWordChar(c) == IsAlpha(c) \/ IsDigit(c) \/ c = "_"

(* str.title(): a letter is upper-cased after a non-letter, lower-cased after a letter *)
RECURSIVE titleFrom(_, _)
titleFrom(s, prevAlpha) ==
    IF s = "" THEN ""
    ELSE LET c == Ch(s, 1)
         IN (IF prevAlpha THEN LowerChar(c) ELSE UpperChar(c))
            \o titleFrom(SubSeq(s, 2, Len(s)), IsAlpha(c))

title(s) == titleFrom(s, FALSE)

StartsWithAt(s, p, i) == i + Len(p) - 1 <= Len(s) /\ SubSeq(s, i, i + Len(p) - 1) = p
startswith(s, p) == StartsWithAt(s, p, 1)
Contains(s, p) == \E i \in 1..(Len(s) - Len(p) + 1) : StartsWithAt(s, p, i)
AnyIn(s, ks) == \E i \in 1..Len(ks) : Contains(s, ks[i])

(* str.strip() *)
strip(s) ==
    LET idx == {i \in 1..Len(s) : Ch(s, i) \notin WS}
    IN IF idx = {} THEN ""
       ELSE SubSeq(s, CHOOSE i \in idx : \A j \in idx : i <= j,
                      CHOOSE i \in idx : \A j \in idx : i >= j)

(* re.sub(r"\s+", " ", s): every maximal run of whitespace becomes one blank *)
RECURSIVE collapse(_, _)
collapse(s, inRun) ==
    IF s = "" THEN ""
    ELSE LET c == Ch(s, 1)
             rest == SubSeq(s, 2, Len(s))
         IN IF c \in WS
            THEN (IF inRun THEN "" ELSE " ") \o collapse(rest, TRUE)
            ELSE c \o collapse(rest, FALSE)

(* _clean without its strip() *)
_clean_no_strip(s) == collapse((IF s = None THEN "" ELSE s), FALSE)

(* brain.py:388 *)
_clean(s) == collapse(strip(IF s = None THEN "" ELSE s), FALSE)

(* str.split()[-1]: the last whitespace-separated word ("" when there is none) *)
LastWord(s) ==
    LET t == strip(s)
        sp == {i \in 1..Len(t) : Ch(t, i) \in WS}
    IN IF sp = {} THEN t
       ELSE SubSeq(t, (CHOOSE i \in sp : \A j \in sp : i >= j) + 1, Len(t))

(* s.split(sep, 1)[1]: what follows the first occurrence of sep *)
AfterFirst(s, sep) ==
    LET idx == {i \in 1..Len(s) : StartsWithAt(s, sep, i)}
        i0 == CHOOSE i \in idx : \A j \in idx : i <= j
    IN SubSeq(s, i0 + Len(sep), Len(s))

(* s.replace(old, "") *)
RECURSIVE remove(_, _)
remove(s, old) ==
    IF s = "" THEN ""
    ELSE IF startswith(s, old) THEN remove(SubSeq(s, Len(old) + 1, Len(s)), old)
    ELSE Ch(s, 1) \o remove(SubSeq(s, 2, Len(s)), old)

(* Python truthiness of an Optional[str] *)
Truthy(x) == x # None /\ x # ""

----------------------------------------------------------------------------
(* brain.py:383 *)
rstrip(s) ==
    LET idx == {i \in 1..Len(s) : Ch(s, i) \notin WS}
    IN IF idx = {} THEN "" ELSE SubSeq(s, 1, CHOOSE i \in idx : \A j \in idx : i >= j)

_shorten(txt, limit) ==
    IF ~Truthy(txt) THEN ""
    ELSE IF Len(txt) <= limit THEN txt
    ELSE rstrip(SubSeq(txt, 1, limit - 3)) \o "..."

(* brain.py:175, BRAIN_MAX_REPLY_CHARS *)
MAX_REPLY_CHARS == 3000

ToStr(n) == Ch(DIGITS, n + 1)

----------------------------------------------------------------------------
(* class TTLCache, brain.py:340-365.  d maps a key to <<expiry, val>>.     *)

Without(d, k) == [x \in DOMAIN d \ {k} |-> d[x]]

(* set without the clock reading *)
TTLCache_set_no_clock(d, ttl, k, val, t) ==
    [x \in DOMAIN d \cup {k} |-> IF x = k THEN <<ttl, val>> ELSE d[x]]

(* TTLCache.set at clock reading t *)
TTLCache_set(d, ttl, k, val, t) ==
    [x \in DOMAIN d \cup {k} |-> IF x = k THEN <<t + ttl, val>> ELSE d[x]]

(* the comparison of get turned around *)
TTLCache_get_inverted(d, k, t) ==
    IF k \in DOMAIN d /\ d[k][1] < t THEN d[k][2] ELSE None

(* TTLCache.get at clock reading t: the value returned ... *)
TTLCache_get(d, k, t) ==
    IF k \in DOMAIN d /\ d[k][1] > t THEN d[k][2] ELSE None

(* get without its del *)
TTLCache_get_d_keeps(d, k, t) == d

(* ... and the map it leaves: an expired entry is deleted by the read *)
TTLCache_get_d(d, k, t) ==
    IF k \in DOMAIN d /\ ~(d[k][1] > t) THEN Without(d, k) ELSE d

TTLCache_delete(d, k) == IF k \in DOMAIN d THEN Without(d, k) ELSE d

TTLCache_clear(d) == [x \in {} |-> <<0, None>>]

----------------------------------------------------------------------------
(* Provider adapters, brain.py:429-731, named by their TOOL_REGISTRY key.  *)

(* brain.py:742-775, in insertion order *)
TOOL_REGISTRY ==
    <<"openweather", "weatherapi", "weatherbit", "open_meteo", "wttr",
      "wikipedia", "duckduckgo", "dictionary",
      "openfda", "rxnav", "dailymed", "rximage",
      "news_reddit", "news_gnews", "news_bbc",
      "joke", "catfact", "bored", "dog", "numbers", "randomuser", "ip",
      "universities", "zip", "country", "openfood", "map">>

Tools == {TOOL_REGISTRY[i] : i \in 1..Len(TOOL_REGISTRY)}

(* the adapters that return None at once when their key is not configured
   (brain.py:430, 443, 452) *)
KeyConfigured(fn) ==
    CASE fn = "openweather" -> OWM_KEY
      [] fn = "weatherapi" -> WEATHERAPI_KEY
      [] fn = "weatherbit" -> WEATHERBIT_KEY
      [] OTHER -> TRUE

(* the adapters that parse the response outside any try/except
   (brain.py:447, 456, 465-474, 680, 688): a response of an unexpected shape
   raises out of them *)
Unguarded == {"weatherapi", "weatherbit", "open_meteo", "universities", "zip"}

(* an exception raised by an adapter *)
Raise == "<raise>"
(* str(e) of that exception *)
ExcText == "Expecting value: line 1 column 1 (char 0)"

(* the string an adapter formats from the v-th answer of its provider *)
ToolResult(fn, a, v) == fn \o ": " \o a \o " #" \o ToStr(v)

(* what one call fn(a) can produce *)
ToolOutcomes(fn, a) ==
    IF ~KeyConfigured(fn) THEN {None}
    ELSE {ToolResult(fn, a, v) : v \in 1..MaxVer} \cup {None}
         \cup (IF fn \in Unguarded THEN {Raise} ELSE {})

----------------------------------------------------------------------------
(* The regular expressions of brain.py.  A failed match is None.           *)

Min(S) == CHOOSE i \in S : \A j \in S : i <= j
Max(S) == CHOOSE i \in S : \A j \in S : i >= j

(* index of the first character at or after p that is not whitespace
   (Len(s) + 1 when there is none) *)
SkipWs(s, p) == Min({i \in p..Len(s) : Ch(s, i) \notin WS} \cup {Len(s) + 1})

\* r"\s+(.+)" matched at index p up to the end of a one-line string: group 1
RestAfterWs(s, p) ==
    LET q == SkipWs(s, p)
    IN IF p > Len(s) \/ Ch(s, p) \notin WS THEN None
       ELSE IF q <= Len(s) THEN SubSeq(s, q, Len(s))
       ELSE IF q - p >= 2 THEN Ch(s, Len(s))
       ELSE None

(* re.match(r"^(?:a1|a2|...)\s+(.+)$", s, flags=re.I): group 1 *)
PrefixGroup(s, alts) ==
    LET ok == {k \in 1..Len(alts) :
                 /\ startswith(lower(s), alts[k])
                 /\ RestAfterWs(s, Len(alts[k]) + 1) # None}
    IN IF ok = {} THEN None ELSE RestAfterWs(s, Len(alts[Min(ok)]) + 1)

(* re.search(r"(?:a1|a2|...)\s+(.+)", s): group 1 of the leftmost match *)
SearchGroup(s, alts) ==
    LET hit(i, k) == /\ StartsWithAt(s, alts[k], i)
                     /\ RestAfterWs(s, i + Len(alts[k])) # None
        pos == {i \in 1..Len(s) : \E k \in 1..Len(alts) : hit(i, k)}
    IN IF pos = {} THEN None
       ELSE LET i0 == Min(pos)
                k0 == Min({k \in 1..Len(alts) : hit(i0, k)})
            IN RestAfterWs(s, i0 + Len(alts[k0]))

AllDigits(s) == s # "" /\ \A i \in 1..Len(s) : IsDigit(Ch(s, i))

(* re.match(r"^(?:number|num|fact)\s+(\d+|random)$", low), brain.py:983 *)
NumberCommand(low) ==
    LET g == PrefixGroup(low, <<"number", "num", "fact">>)
    IN IF g # None /\ (AllDigits(g) \/ g = "random") THEN g ELSE None

(* re.match(r"(?:number|num|fact)\s+(\d+|random)", t), brain.py:831 *)
NumberPrefix(t) ==
    LET g == PrefixGroup(t, <<"number", "num", "fact">>)
        nd == IF g = None THEN 0
              ELSE Min({i \in 1..Len(g) : ~IsDigit(Ch(g, i))} \cup {Len(g) + 1}) - 1
    IN IF g = None THEN None
       ELSE IF nd > 0 THEN SubSeq(g, 1, nd)
       ELSE IF startswith(g, "random") THEN "random"
       ELSE None

\* brain.py:1012, group 1 of
\*   re.match(r"^(?:weather|forecast|is it raining|temperature)\s*(?:in|for)?\s*(.*)$", text, flags=re.I)
WeatherCommand(s) ==
    LET alts == <<"weather", "forecast", "is it raining", "temperature">>
        ok == {k \in 1..Len(alts) : startswith(lower(s), alts[k])}
    IN IF ok = {} THEN None
       ELSE LET p1 == SkipWs(s, Len(alts[Min(ok)]) + 1)
                p2 == IF StartsWithAt(lower(s), "in", p1) THEN p1 + 2
                      ELSE IF StartsWithAt(lower(s), "for", p1) THEN p1 + 3
                      ELSE p1
                p3 == SkipWs(s, p2)
            IN SubSeq(s, p3, Len(s))

(* re.search(r"(?:in|for)\s+([a-zA-Z\s\-]+)", t), brain.py:806: group 1 *)
InForGroup(t) ==
    LET alts == <<"in", "for">>
        cls(c) == IsAlpha(c) \/ c \in WS \/ c = "-"
        grp(p) == LET q == SkipWs(t, p)
                  IN IF p > Len(t) \/ Ch(t, p) \notin WS THEN None
                     ELSE IF q <= Len(t) /\ cls(Ch(t, q))
                     THEN SubSeq(t, q, Min({i \in q..Len(t) : ~cls(Ch(t, i))}
                                           \cup {Len(t) + 1}) - 1)
                     ELSE IF q - p >= 2
                     THEN SubSeq(t, q - 1, Min({i \in q..Len(t) : ~cls(Ch(t, i))}
                                               \cup {Len(t) + 1}) - 1)
                     ELSE None
        hit(i, k) == StartsWithAt(t, alts[k], i) /\ grp(i + Len(alts[k])) # None
        pos == {i \in 1..Len(t) : \E k \in 1..Len(alts) : hit(i, k)}
    IN IF pos = {} THEN None
       ELSE LET i0 == Min(pos)
                k0 == Min({k \in 1..Len(alts) : hit(i0, k)})
            IN grp(i0 + Len(alts[k0]))

(* re.search(r"\bjoke\b", low), brain.py:975 *)
WordJoke(low) ==
    \E i \in 1..Len(low) :
        /\ StartsWithAt(low, "joke", i)
        /\ (i = 1 \/ ~IsWordChar(Ch(low, i - 1)))
        /\ (i + 4 > Len(low) \/ ~IsWordChar(Ch(low, i + 4)))

----------------------------------------------------------------------------
(* Intent decisions: dicts with the keys action, tool, group, args; a key  *)
(* the dict does not have reads as None.                                   *)

Intent(a, tl, g, x) == [action |-> a, tool |-> tl, group |-> g, args |-> x]
CallTool(tl, x) == Intent("call_tool", tl, None, x)
CallGroup(g, x) == Intent("call_tool_group", None, g, x)
(* heuristic_intent returning None *)
NoIntent == Intent(None, None, None, None)

(* the rules with knowledge tried before drug *)
heuristic_intent_knowledge_first(ut) ==
    LET t == strip(lower(ut))
        m_weather == InForGroup(t)
        m_map == SearchGroup(t, <<"map", "where is", "show me map of">>)
        m_drug == SearchGroup(t, <<"drug", "about", "tell me about", "medicine",
                                   "tablet", "pill", "what is">>)
        m_know == SearchGroup(t, <<"what is", "who is", "tell me about", "define",
                                   "explain", "meaning of", "wiki">>)
    IN IF t = "" THEN NoIntent
       ELSE IF AnyIn(t, <<"weather", "temperature", "forecast", "is it raining",
                          "raining", "rain">>)
       THEN CallGroup("weather", IF m_weather # None THEN strip(m_weather)
                                 ELSE LastWord(t))
       ELSE IF AnyIn(t, <<"what time", "current time", "time now", "date now", "clock">>)
       THEN CallTool("time", "")
       ELSE IF Contains(t, "news") \/ Contains(t, "headline")
       THEN CallGroup("news", "")
       ELSE IF Contains(t, "joke") THEN CallTool("joke", "")
       ELSE IF Contains(t, "cat fact") \/ Contains(t, "catfact") THEN CallTool("catfact", "")
       ELSE IF Contains(t, "activity") \/ Contains(t, "bored") THEN CallTool("bored", "")
       ELSE IF NumberPrefix(t) # None THEN CallTool("numbers", NumberPrefix(t))
       ELSE IF startswith(t, "map ") \/ Contains(t, "where is ") \/ startswith(t, "show me map")
       THEN CallTool("map", IF m_map # None THEN strip(m_map) ELSE LastWord(t))
       ELSE IF AnyIn(t, <<"what is", "who is", "tell me about", "define", "explain",
                          "meaning of", "wiki">>)
       THEN CallGroup("knowledge", IF m_know # None THEN strip(m_know) ELSE t)
       ELSE IF AnyIn(t, <<"drug", "medicine", "tablet", "pill", "side effects",
                          "dosage", "indication", "treat">>)
       THEN CallGroup("drug", IF m_drug # None THEN strip(m_drug) ELSE LastWord(t))
       ELSE IF startswith(t, "universities in ") \/ startswith(t, "universities ")
       THEN CallTool("universities",
                     IF Contains(t, " in ") THEN AfterFirst(t, " in ")
                     ELSE strip(remove(t, "universities")))
       ELSE IF startswith(t, "zip ") \/ startswith(t, "zipcode ")
       THEN CallTool("zip", AfterFirst(t, " "))
       ELSE IF Contains(t, "random user") THEN CallTool("randomuser", "")
       ELSE IF t \in {"ip", "my ip", "what is my ip"} THEN CallTool("ip", "")
       ELSE IF startswith(t, "country ") THEN CallTool("country", AfterFirst(t, " "))
       ELSE IF startswith(t, "food ") \/ startswith(t, "openfood ")
       THEN CallTool("openfood", AfterFirst(t, " "))
       ELSE IF AnyIn(t, <<"search", "look up", "find info", "who is", "what is">>)
       THEN CallGroup("knowledge", t)
       ELSE NoIntent

(* brain.py:799-877 *)
heuristic_intent(ut) ==
    LET t == strip(lower(ut))
        m_weather == InForGroup(t)
        m_map == SearchGroup(t, <<"map", "where is", "show me map of">>)
        m_drug == SearchGroup(t, <<"drug", "about", "tell me about", "medicine",
                                   "tablet", "pill", "what is">>)
        m_know == SearchGroup(t, <<"what is", "who is", "tell me about", "define",
                                   "explain", "meaning of", "wiki">>)
    IN IF t = "" THEN NoIntent
       ELSE IF AnyIn(t, <<"weather", "temperature", "forecast", "is it raining",
                          "raining", "rain">>)
       THEN CallGroup("weather", IF m_weather # None THEN strip(m_weather)
                                 ELSE LastWord(t))
       ELSE IF AnyIn(t, <<"what time", "current time", "time now", "date now", "clock">>)
       THEN CallTool("time", "")
       ELSE IF Contains(t, "news") \/ Contains(t, "headline")
       THEN CallGroup("news", "")
       ELSE IF Contains(t, "joke") THEN CallTool("joke", "")
       ELSE IF Contains(t, "cat fact") \/ Contains(t, "catfact") THEN CallTool("catfact", "")
       ELSE IF Contains(t, "activity") \/ Contains(t, "bored") THEN CallTool("bored", "")
       ELSE IF NumberPrefix(t) # None THEN CallTool("numbers", NumberPrefix(t))
       ELSE IF startswith(t, "map ") \/ Contains(t, "where is ") \/ startswith(t, "show me map")
       THEN CallTool("map", IF m_map # None THEN strip(m_map) ELSE LastWord(t))
       ELSE IF AnyIn(t, <<"drug", "medicine", "tablet", "pill", "side effects",
                          "dosage", "indication", "treat">>)
       THEN CallGroup("drug", IF m_drug # None THEN strip(m_drug) ELSE LastWord(t))
       ELSE IF AnyIn(t, <<"what is", "who is", "tell me about", "define", "explain",
                          "meaning of", "wiki">>)
       THEN CallGroup("knowledge", IF m_know # None THEN strip(m_know) ELSE t)
       ELSE IF startswith(t, "universities in ") \/ startswith(t, "universities ")
       THEN CallTool("universities",
                     IF Contains(t, " in ") THEN AfterFirst(t, " in ")
                     ELSE strip(remove(t, "universities")))
       ELSE IF startswith(t, "zip ") \/ startswith(t, "zipcode ")
       THEN CallTool("zip", AfterFirst(t, " "))
       ELSE IF Contains(t, "random user") THEN CallTool("randomuser", "")
       ELSE IF t \in {"ip", "my ip", "what is my ip"} THEN CallTool("ip", "")
       ELSE IF startswith(t, "country ") THEN CallTool("country", AfterFirst(t, " "))
       ELSE IF startswith(t, "food ") \/ startswith(t, "openfood ")
       THEN CallTool("openfood", AfterFirst(t, " "))
       ELSE IF AnyIn(t, <<"search", "look up", "find info", "who is", "what is">>)
       THEN CallGroup("knowledge", t)
       ELSE NoIntent

----------------------------------------------------------------------------
(* The hosted language model, brain.py:392-424.  A response of the         *)
(* endpoint is [kind |-> "generated", val |-> the generated text] or       *)
(* [kind |-> "error", val |-> the message of the error dict].              *)

Generated(txt) == [kind |-> "generated", val |-> txt]
ErrorDict(msg) == [kind |-> "error", val |-> msg]

(* brain.py:410-424: str() of the error dict, else the generated text *)
_extract_generated_text(hf_resp) ==
    IF hf_resp.kind = "generated" THEN hf_resp.val
    ELSE "{'error': '" \o hf_resp.val \o "'}"

(* texts the model can generate for a free-form prompt *)
FreeTexts == {"generated text #" \o ToStr(v) : v \in 1..MaxVer} \cup {"", " \n"}

(* texts the model can generate for the planner prompt *)
PlannerTexts ==
    { "{\"action\": \"call_tool_group\", \"group\": \"news\", \"args\": \"\"}",
      "Sure! {'action': 'call_tool', 'tool': 'zip', 'args': '90210',}",
      "{\"action\": \"call_tool\", \"tool\": \"time\"}",
      "{\"action\": \"call_tool\", \"tool\": \"translate\", \"args\": \"hola\"}",
      "{\"action\": \"call_tool\", \"tool\": 5}",
      "{\"tool\": \"joke\"}",
      "I would just answer the user." }

(* brain.py:392-408: what hf_query_raw can return for a prompt whose
   possible completions are texts *)
hf_query_raw(texts) ==
    IF ~HF_KEY THEN {ErrorDict("hf_key_missing")}
    ELSE {Generated(x) : x \in texts} \cup {ErrorDict("503 Server Error")}

(* str.replace(old, new) for one-character old *)
RECURSIVE replaceChar(_, _, _)
replaceChar(s, old, new) ==
    IF s = "" THEN ""
    ELSE (IF Ch(s, 1) = old THEN new ELSE Ch(s, 1))
         \o replaceChar(SubSeq(s, 2, Len(s)), old, new)

(* re.sub(r",\s*(\]|})", r"\1", s), brain.py:887 *)
RECURSIVE dropTrailingCommas(_)
dropTrailingCommas(s) ==
    IF s = "" THEN ""
    ELSE LET q == SkipWs(s, 2)
         IN IF Ch(s, 1) = "," /\ q <= Len(s) /\ Ch(s, q) \in {"]", "}"}
            THEN dropTrailingCommas(SubSeq(s, q, Len(s)))
            ELSE Ch(s, 1) \o dropTrailingCommas(SubSeq(s, 2, Len(s)))

(* a value of a JSON object that is not a string *)
NonStr == "<non-str>"

(* json.loads on the objects the planner texts hold; any other input is a
   JSONDecodeError, which _extract_json_from_text turns into None *)
json_loads(c) ==
    CASE c = "{\"action\": \"call_tool_group\", \"group\": \"news\", \"args\": \"\"}"
           -> CallGroup("news", "")
      [] c = "{\"action\": \"call_tool\", \"tool\": \"zip\", \"args\": \"90210\"}"
           -> CallTool("zip", "90210")
      [] c = "{\"action\": \"call_tool\", \"tool\": \"time\"}"
           -> CallTool("time", None)
      [] c = "{\"action\": \"call_tool\", \"tool\": \"translate\", \"args\": \"hola\"}"
           -> CallTool("translate", "hola")
      [] c = "{\"action\": \"call_tool\", \"tool\": 5}"
           -> CallTool(NonStr, None)
      [] c = "{\"tool\": \"joke\"}"
           -> Intent(None, "joke", None, None)
      [] c = "{\"error\": \"503 Server Error\"}"
           -> Intent(None, None, None, None)
      [] OTHER -> NoIntent

(* brain.py:880-890 *)
_extract_json_from_text(txt) ==
    LET open == {i \in 1..Len(txt) : Ch(txt, i) = "{"}
        close == {i \in 1..Len(txt) : Ch(txt, i) = "}"}
    IN IF open = {} \/ close = {} \/ Max(close) < Min(open) THEN NoIntent
       ELSE json_loads(dropTrailingCommas(
                replaceChar(SubSeq(txt, Min(open), Max(close)), "'", "\"")))

(* the parsed object returned as it is *)
planner_decision_unchecked(ut, hf_resp) ==
    _extract_json_from_text(_extract_generated_text(hf_resp))

(* brain.py:905-909: planner_intent after the model has answered *)
planner_decision(ut, hf_resp) ==
    LET j == _extract_json_from_text(_extract_generated_text(hf_resp))
    IN IF j.action # None THEN j ELSE Intent("respond", None, None, ut)

----------------------------------------------------------------------------
(* chatbot_response, brain.py:936-1133, as a function of the handler's     *)
(* state S and the clock reading t.                                        *)

(* brain.py:180, 218 (first lines) *)
START_TEXT == "*Welcome to PharmaCare Bot!*"
HELP_TEXT == "*PharmaCare Bot - Commands & Examples*"

Cur == [pc |-> pc, text |-> text, site |-> site, cache_key |-> cache_key,
        arg |-> arg, chain |-> chain, tool_name |-> tool_name,
        tool_out |-> tool_out, cache |-> _cache, hist |-> _chat_history,
        calls |-> calls, hf_calls |-> hf_calls, reply |-> reply, raised |-> raised,
        log |-> seq_log]

Apply(S) ==
    /\ pc' = S.pc /\ text' = S.text /\ site' = S.site /\ cache_key' = S.cache_key
    /\ arg' = S.arg /\ chain' = S.chain /\ tool_name' = S.tool_name
    /\ tool_out' = S.tool_out /\ _cache' = S.cache /\ _chat_history' = S.hist
    /\ calls' = S.calls /\ hf_calls' = S.hf_calls /\ reply' = S.reply
    /\ raised' = S.raised /\ seq_log' = S.log

Finish(S) ==
    [S EXCEPT !.pc = "idle", !.site = "", !.cache_key = "", !.arg = "",
              !.chain = <<>>, !.tool_name = "", !.tool_out = ""]

(* return r *)
Return(S, r) == [Finish(S) EXCEPT !.reply = r, !.raised = FALSE]

(* _chat_history.append({"user": text, "bot": r}); return r *)
AppendReturn(S, r) ==
    [Return(S, r) EXCEPT !.hist = Append(S.hist, [user |-> S.text, bot |-> r])]

(* an exception leaves chatbot_response *)
Escape(S) == [Finish(S) EXCEPT !.reply = None, !.raised = TRUE]

(* the candidates of the four groups, brain.py:992, 1006, 1016, 1034 *)
DRUG_TOOLS == <<"openfda", "rxnav", "dailymed", "rximage">>
KNOWLEDGE_TOOLS == <<"wikipedia", "duckduckgo", "dictionary">>
WEATHER_TOOLS == <<"openweather", "weatherapi", "weatherbit", "open_meteo", "wttr">>
NEWS_TOOLS == <<"news_reddit", "news_gnews", "news_bbc">>

(* the call sites, the drug branch asking the dictionary as well *)
AfterSequence_dictionary(S, res) ==
    IF Truthy(res) THEN AppendReturn(S, res)
    ELSE CASE S.site = "drug" ->
                [S EXCEPT !.pc = "drug_search",
                          !.chain = <<"wikipedia", "duckduckgo", "dictionary">>]
           [] S.site = "knowledge" -> Return(S, "No results for *" \o S.arg \o "*.")
           [] S.site = "weather" -> Return(S, "Couldn't fetch weather for *" \o S.arg \o "*.")
           [] S.site = "news" -> Return(S, "Couldn't fetch news right now.")
           [] S.site = "group_weather" -> Return(S, "Couldn't fetch weather for *" \o S.arg \o "*.")
           [] S.site = "group_drug" -> Return(S, "No drug info found for *" \o S.arg \o "*.")
           [] S.site = "group_knowledge" -> Return(S, "No results for *" \o S.arg \o "*.")
           [] S.site = "group_news" -> Return(S, "No news right now.")

(* what the call site does with the value of try_tools_sequence:
   brain.py:993-1001, 1007-1010, 1019-1022, 1035-1038, 1084-1105 *)
AfterSequence(S, res) ==
    IF Truthy(res) THEN AppendReturn(S, res)
    ELSE CASE S.site = "drug" ->
                [S EXCEPT !.pc = "drug_search", !.chain = <<"wikipedia", "duckduckgo">>]
           [] S.site = "knowledge" -> Return(S, "No results for *" \o S.arg \o "*.")
           [] S.site = "weather" -> Return(S, "Couldn't fetch weather for *" \o S.arg \o "*.")
           [] S.site = "news" -> Return(S, "Couldn't fetch news right now.")
           [] S.site = "group_weather" -> Return(S, "Couldn't fetch weather for *" \o S.arg \o "*.")
           [] S.site = "group_drug" -> Return(S, "No drug info found for *" \o S.arg \o "*.")
           [] S.site = "group_knowledge" -> Return(S, "No results for *" \o S.arg \o "*.")
           [] S.site = "group_news" -> Return(S, "No news right now.")

(* The history of try_tools_sequence: one entry per call, holding its cache
   key, its candidates, the clock reading of its cache read, the candidates
   it called with what each did, and the value it returned and when *)
Pending == "<running>"

Called(S, t, ck, key, a, candidates) ==
    [S EXCEPT !.log = Append(S.log, [key |-> ck, cap |-> key, arg |-> a,
                                     cands |-> candidates, start |-> t,
                                     tried |-> <<>>, res |-> Pending, at |-> t])]

Tried(S, fn, result) ==
    [S EXCEPT !.log[Len(S.log)].tried = Append(@, <<fn, result>>)]

Returned(S, t, res) ==
    [S EXCEPT !.log[Len(S.log)].res = res, !.log[Len(S.log)].at = t]

(* the key without lower() *)
CacheKey_as_given(key, a) == key \o ":" \o a

(* f"{key}:{arg}".lower(), brain.py:783 *)
CacheKey(key, a) == lower(key \o ":" \o a)

(* is the value read from the cache returned without trying a provider?
   brain.py:785 *)
CacheHit(cached) == Truthy(cached)

(* try_tools_sequence up to its first provider call, brain.py:783-787 *)
EnterSequence(S, t, st, key, a, candidates) ==
    LET ck == CacheKey(key, a)
        cached == TTLCache_get(S.cache, ck, t)
        S1 == [Called(S, t, ck, key, a, candidates)
                 EXCEPT !.cache = TTLCache_get_d(S.cache, ck, t),
                        !.site = st, !.cache_key = ck, !.arg = a]
    IN IF CacheHit(cached) THEN AfterSequence(Returned(S1, t, cached), cached)
       ELSE [S1 EXCEPT !.pc = "try_tools_sequence", !.chain = candidates]

(* the value the loop gives to out for what fn(arg) did, brain.py:788-791 *)
Caught(out) == IF out = Raise THEN None ELSE out

(* what try_tools_sequence stores when every candidate failed, brain.py:795 *)
Exhausted(d, k, t) == TTLCache_set(d, CACHE_TTL, k, None, t)

(* the loop without its try/except: what a candidate raises leaves
   try_tools_sequence and chatbot_response *)
SequenceStep_uncaught(S, t, result) ==
    LET S1 == [Tried(S, Head(S.chain), result)
                 EXCEPT !.calls = Append(S.calls, <<Head(S.chain), result>>)]
    IN IF result = Raise THEN Escape(S1)
       ELSE IF Truthy(result)
       THEN AfterSequence([Returned(S1, t, result) EXCEPT
                              !.cache = TTLCache_set(S.cache, CACHE_TTL, S.cache_key, result, t)],
                          result)
       ELSE IF Len(S.chain) > 1 THEN [S1 EXCEPT !.chain = Tail(S.chain)]
       ELSE AfterSequence([Returned(S1, t, None) EXCEPT
                              !.cache = Exhausted(S.cache, S.cache_key, t)],
                          None)

(* the loop without its return: the last non-empty result wins *)
SequenceStep_no_return(S, t, result) ==
    LET out == Caught(result)
        S1 == [Tried(S, Head(S.chain), result)
                 EXCEPT !.calls = Append(S.calls, <<Head(S.chain), result>>)]
    IN IF Len(S.chain) > 1
       THEN [S1 EXCEPT !.chain = Tail(S.chain), !.tool_out = IF Truthy(out) THEN out ELSE @]
       ELSE LET last == IF Truthy(out) THEN out
                        ELSE IF Truthy(S.tool_out) THEN S.tool_out ELSE None
            IN AfterSequence([Returned(S1, t, last) EXCEPT
                                 !.cache = TTLCache_set(S.cache, CACHE_TTL, S.cache_key, last, t)],
                             last)

(* one iteration of the loop of try_tools_sequence, brain.py:787-796, the
   candidate having produced result *)
SequenceStep(S, t, result) ==
    LET out == Caught(result)
        S1 == [Tried(S, Head(S.chain), result)
                 EXCEPT !.calls = Append(S.calls, <<Head(S.chain), result>>)]
    IN IF Truthy(out)
       THEN AfterSequence([Returned(S1, t, out) EXCEPT
                              !.cache = TTLCache_set(S.cache, CACHE_TTL, S.cache_key, out, t)],
                          out)
       ELSE IF Len(S.chain) > 1 THEN [S1 EXCEPT !.chain = Tail(S.chain)]
       ELSE AfterSequence([Returned(S1, t, None) EXCEPT
                              !.cache = Exhausted(S.cache, S.cache_key, t)],
                          None)

(* brain.py:912-931 without the model: the templated reply *)
BlendTemplate(tl, out) ==
    IF ~Truthy(out) THEN "Sorry - external service returned no result."
    ELSE _shorten("I looked this up for you (source: " \o tl \o "):\n\n" \o out, 1200)

(* brain.py:1075-1077 entered with tool_out known *)
EnterBlend(S, out) ==
    IF HF_KEY THEN [S EXCEPT !.pc = "blend_tool_result", !.tool_out = out]
    ELSE AppendReturn(S, BlendTemplate(S.tool_name, out))

(* TOOL_REGISTRY.get(name), then the fuzzy match of brain.py:1050-1058:
   the registry key that ends up in tool_name (None: no fn) *)
ResolveTool(name) ==
    LET lk == lower(IF name = None THEN "" ELSE name)
        fuzzy == {i \in 1..Len(TOOL_REGISTRY) : lk # "" /\ Contains(lower(TOOL_REGISTRY[i]), lk)}
    IN IF name \in Tools THEN name
       ELSE IF fuzzy # {} THEN TOOL_REGISTRY[Min(fuzzy)]
       ELSE None

(* brain.py:1107-1130 up to its first outside call *)
EnterRespond(S) ==
    IF HF_KEY THEN [S EXCEPT !.pc = "respond_hf"]
    ELSE [S EXCEPT !.pc = "respond_search", !.arg = S.text,
                   !.chain = <<"duckduckgo", "wikipedia", "dictionary">>]

(* brain.py:1045-1105: the intent is handled *)
HandleIntent(S, t, intent) ==
    LET args == IF intent.args = None THEN "" ELSE intent.args
        fn == ResolveTool(intent.tool)
    IN IF intent.action = "call_tool"
       THEN IF intent.tool = NonStr THEN Escape(S)
            ELSE IF intent.tool = "time"
            THEN AppendReturn(S, "Current UTC time: " \o ToStr(t) \o "Z")
            ELSE IF fn = None
            THEN [S EXCEPT !.pc = "no_fn_search", !.tool_name = intent.tool,
                           !.arg = IF args # "" THEN args ELSE S.text,
                           !.chain = <<"duckduckgo", "wikipedia">>]
            ELSE [S EXCEPT !.pc = "call_tool", !.tool_name = fn, !.arg = args,
                           !.chain = <<fn>>]
       ELSE IF intent.action = "call_tool_group" /\ intent.group = "weather"
       THEN EnterSequence(S, t, "group_weather", "weather", args, WEATHER_TOOLS)
       ELSE IF intent.action = "call_tool_group" /\ intent.group = "drug"
       THEN EnterSequence(S, t, "group_drug", "drug", args, DRUG_TOOLS)
       ELSE IF intent.action = "call_tool_group" /\ intent.group = "knowledge"
       THEN EnterSequence(S, t, "group_knowledge", "knowledge", args, KNOWLEDGE_TOOLS)
       ELSE IF intent.action = "call_tool_group" /\ intent.group = "news"
       THEN EnterSequence(S, t, "group_news", "news", args, NEWS_TOOLS)
       ELSE EnterRespond(S)

(* the planner asked whatever the credential *)
EnterIntent_always_plans(S, t, intent) ==
    IF intent # NoIntent THEN HandleIntent(S, t, intent)
    ELSE [S EXCEPT !.pc = "planner_intent"]

(* brain.py:1040-1043 *)
EnterIntent(S, t, intent) ==
    IF intent # NoIntent THEN HandleIntent(S, t, intent)
    ELSE IF ~HF_KEY THEN HandleIntent(S, t, Intent("respond", None, None, S.text))
    ELSE [S EXCEPT !.pc = "planner_intent"]

Direct(S, label, fn, a) == [S EXCEPT !.pc = label, !.chain = fn, !.arg = a]

(* what chatbot_response computes from its argument alone: the cleaned text,
   the matches of its regular expressions (brain.py:940-1033) and
   heuristic_intent(text) (brain.py:1041) *)
Matches(ut) ==
    LET txt == _clean(ut)
    IN [text |-> txt,
        low |-> strip(lower(txt)),
        sum |-> PrefixGroup(txt, <<"summarize", "summarise", "shorten">>),
        exp |-> PrefixGroup(txt, <<"expand", "explain">>),
        par |-> PrefixGroup(txt, <<"paraphrase", "rephrase">>),
        num |-> NumberCommand(strip(lower(txt))),
        drug |-> PrefixGroup(txt, <<"drug", "tell me about">>),
        know |-> PrefixGroup(txt, <<"wiki", "define", "what is", "who is",
                                    "tell me about", "explain">>),
        wea |-> WeatherCommand(txt),
        map |-> PrefixGroup(txt, <<"map", "where is", "show me map of">>),
        intent |-> heuristic_intent(txt)]

(* brain.py:940-1043: chatbot_response up to its first outside call, m being
   Matches(user_text) *)
Route(S0, m, t) ==
    LET S == [S0 EXCEPT !.text = m.text]
        low == m.low
    IN IF m.text = "" THEN Return(S, "Say something so I can help")
       ELSE IF low \in {"/start", "start"} THEN Return(S, START_TEXT)
       ELSE IF low \in {"/help", "help", "commands"} THEN Return(S, HELP_TEXT)
       ELSE IF m.sum # None
       THEN IF ~HF_KEY
            THEN Direct(S, "summarize_search", <<"wikipedia", "duckduckgo">>, strip(m.sum))
            ELSE [S EXCEPT !.pc = "hf_command"]
       ELSE IF m.exp # None
       THEN IF ~HF_KEY
            THEN Return(S, "Expansion requires Hugging Face API key (owner must set HF_API_KEY).")
            ELSE [S EXCEPT !.pc = "hf_command"]
       ELSE IF m.par # None
       THEN IF ~HF_KEY
            THEN Return(S, "Paraphrase requires Hugging Face API key.")
            ELSE [S EXCEPT !.pc = "hf_command"]
       ELSE IF WordJoke(low) THEN Direct(S, "quick_joke", <<"joke">>, "")
       ELSE IF Contains(low, "cat fact") \/ Contains(low, "catfact")
       THEN Direct(S, "quick_catfact", <<"catfact">>, "")
       ELSE IF Contains(low, "activity") \/ Contains(low, "bored")
       THEN Direct(S, "quick_bored", <<"bored">>, "")
       ELSE IF Contains(low, "random user")
       THEN Direct(S, "quick_randomuser", <<"randomuser">>, "")
       ELSE IF m.num # None THEN Direct(S, "quick_numbers", <<"numbers">>, m.num)
       ELSE IF m.drug # None
       THEN EnterSequence(S, t, "drug", "drug", _clean(m.drug), DRUG_TOOLS)
       ELSE IF m.know # None
       THEN EnterSequence(S, t, "knowledge", "knowledge", _clean(m.know), KNOWLEDGE_TOOLS)
       ELSE IF m.wea # None /\ strip(m.wea) # ""
       THEN EnterSequence(S, t, "weather", "weather", _clean(m.wea), WEATHER_TOOLS)
       ELSE IF m.map # None THEN Direct(S, "map_lookup", <<"map">>, _clean(m.map))
       ELSE IF Contains(low, "news") \/ Contains(low, "headline")
       THEN EnterSequence(S, t, "news", "news", "", NEWS_TOOLS)
       ELSE EnterIntent(S, t, m.intent)

(* the provider calls chatbot_response makes itself, a(x) or b(x), and
   what it does when one answers: brain.py:958-959, 976-985, 997-1001,
   1027-1031, 1066-1070, 1121-1130.  c: the pick of random.choice *)
DirectPcs == {"summarize_search", "quick_joke", "quick_catfact", "quick_bored",
              "quick_randomuser", "quick_numbers", "drug_search", "map_lookup",
              "no_fn_search", "respond_search"}

(* the lists random.choice picks from, brain.py:976, 1126-1130 *)
JOKE_FALLBACKS == <<"No jokes now - try later!", "I'm out of jokes!">>
FINAL_FALLBACKS ==
    <<"I didn't quite get that. Try '/help' or rephrase your question.",
      "I'm learning - can you ask in another way?",
      "I'm here! Could you be more specific?">>

(* the wording of the planner's drug group, brain.py:1093 *)
NoDrugInfo_group(drug_name) == "No drug info found for *" \o drug_name \o "*."

(* brain.py:1001 *)
NoDrugInfo(drug_name) == "Sorry, no drug info found for *" \o drug_name \o "*."

DirectFound(S, out) ==
    IF S.pc \in {"drug_search", "map_lookup", "no_fn_search", "respond_search"}
    THEN AppendReturn(S, out)
    ELSE Return(S, out)

DirectNone(S, c) ==
    CASE S.pc = "summarize_search" ->
            Return(S, "Summarize requires Hugging Face key (owner must set HF_API_KEY).")
      [] S.pc = "quick_joke" ->
            Return(S, JOKE_FALLBACKS[c])
      [] S.pc = "quick_catfact" -> Return(S, "No cat facts now.")
      [] S.pc = "quick_bored" -> Return(S, "No activity now.")
      [] S.pc = "quick_randomuser" -> Return(S, "Couldn't fetch a random user.")
      [] S.pc = "quick_numbers" -> Return(S, None)
      [] S.pc = "drug_search" -> Return(S, NoDrugInfo(S.arg))
      [] S.pc = "map_lookup" -> Return(S, "Map not found for *" \o S.arg \o "*.")
      [] S.pc = "no_fn_search" ->
            Return(S, "I couldn't find a tool for " \o S.tool_name \o ".")
      [] S.pc = "respond_search" ->
            AppendReturn(S, FINAL_FALLBACKS[c])

DirectStep(S, result, c) ==
    LET S1 == [S EXCEPT !.calls = Append(S.calls, <<Head(S.chain), result>>)]
    IN IF result = Raise THEN Escape(S1)
       ELSE IF Truthy(result) THEN DirectFound(S1, result)
       ELSE IF Len(S.chain) > 1 THEN [S1 EXCEPT !.chain = Tail(S.chain)]
       ELSE DirectNone(S1, c)

(* brain.py:1071-1077: fn(args or "") inside try/except, then the blender *)
CallToolStep(S, result) ==
    LET S1 == [S EXCEPT !.calls = Append(S.calls, <<Head(S.chain), result>>)]
        out == IF result = Raise THEN "Tool call failed: " \o ExcText
               ELSE IF result = None THEN "" ELSE result
    IN EnterBlend(S1, out)

(* the four places that wait for the model: brain.py:960/966/972, 904-909,
   924-931, 1116-1118 *)
HfPcs == {"hf_command", "planner_intent", "blend_tool_result", "respond_hf"}

(* brain.py:1118 *)
NO_REPLY_CRAFTED == "Sorry - I couldn't craft a reply."

HfStep(S0, t, hf_resp) ==
    LET S == [S0 EXCEPT !.hf_calls = S0.hf_calls + 1]
        txt == _extract_generated_text(hf_resp)
    IN CASE S.pc = "hf_command" -> Return(S, txt)
         [] S.pc = "planner_intent" -> HandleIntent(S, t, planner_decision(S.text, hf_resp))
         [] S.pc = "blend_tool_result" ->
               AppendReturn(S, (IF strip(txt) # "" THEN _shorten(strip(txt), MAX_REPLY_CHARS)
                                ELSE BlendTemplate(S.tool_name, S.tool_out)))
         [] S.pc = "respond_hf" ->
               AppendReturn(S, _shorten((IF strip(txt) # "" THEN strip(txt)
                                         ELSE NO_REPLY_CRAFTED),
                                        MAX_REPLY_CHARS))

----------------------------------------------------------------------------
(* The messages sent to the bot *)

Inputs ==
    { None, "", " \n ",
      "weather Lagos", "wiki malaria", "drug ibuprofen", "map lagos", "news",
      "wiki joke", "number 7", "zip 90210", "summarize malaria", "hello", "time" }

(* the messages of a user who asks again *)
RepeatInputs == { None, " \n ", "wiki malaria", "weather Lagos" }

(* the messages of a user who asks again in capitals *)
CaseInputs == { "wiki malaria", "wiki MALARIA" }

(* Matches, computed once for every message *)
Matched == [ut \in Inputs \cup CaseInputs |-> Matches(ut)]

(* _safe_get not yet called *)
NoResponse == [status |-> None, attempt |-> 0]

SafeGetIdle ==
    /\ sg_pc = "idle" /\ retries = 0 /\ attempt = 0 /\ statuses = <<>>
    /\ sg_ret = NoResponse /\ slept = 0 /\ sg_calls = 0

Init ==
    /\ HF_KEY \in BOOLEAN
    /\ OWM_KEY \in BOOLEAN
    /\ WEATHERAPI_KEY = FALSE
    /\ WEATHERBIT_KEY = FALSE
    /\ now = 0
    /\ _cache = [x \in {} |-> <<0, None>>]
    /\ _chat_history = <<>>
    /\ pc = "idle"
    /\ user_text = None
    /\ text = ""
    /\ site = "" /\ cache_key = "" /\ arg = "" /\ chain = <<>>
    /\ tool_name = "" /\ tool_out = ""
    /\ calls = <<>> /\ hf_calls = 0
    /\ reply = None /\ raised = FALSE
    /\ turns = 0
    /\ seq_log = <<>>
    /\ SafeGetIdle
    /\ ops = <<>>
    /\ h_text = None /\ h_ret = NoIntent
    /\ b_msg = None /\ b_ret = [handler |-> None, arg |-> None]
    /\ n_msg = None /\ n_ret = None
    /\ state = {} /\ state_log = <<>>
    /\ hm_pc = "idle" /\ hm_msg = 0
    /\ ty_pc = [m \in 1..MaxMsgs |-> "off"]
    /\ stop_evt = [m \in 1..MaxMsgs |-> FALSE]
    /\ typing_sent = [m \in 1..MaxMsgs |-> FALSE]
    /\ th_pc = [t \in 1..MaxThreads |-> "idle"]
    /\ th_msg = [t \in 1..MaxThreads |-> None]
    /\ th_resp = [t \in 1..MaxThreads |-> None]
    /\ shared_data = [last_user_message |-> None, last_bot_response |-> None]
    /\ lock = 0
    /\ rc_pc = [t \in 1..MaxThreads |-> "idle"]
    /\ rc_expiry = [t \in 1..MaxThreads |-> 0]
    /\ rc_d = TTLCache_clear(<<>>)
    /\ rc_lost = FALSE
    /\ rc_ops = 0
    /\ tw_d = TTLCache_clear(<<>>)
    /\ tw_new_d = TTLCache_clear(<<>>)
    /\ tw_ret = <<None, None>>
    /\ tw_ops = 0

(* what no step of chatbot_response changes: the configuration, and the
   components that are modelled by themselves *)
Config == UNCHANGED <<HF_KEY, OWM_KEY, WEATHERAPI_KEY, WEATHERBIT_KEY>> /\ UNCHANGED unit_vars

(* a message of msgs arrives: chatbot_response(ut) runs up to its first
   outside call *)
Receive(msgs, limit) ==
    /\ pc = "idle" /\ turns < limit
    /\ \E ut \in msgs :
         /\ user_text' = ut
         /\ Apply(Route([Cur EXCEPT !.calls = <<>>, !.hf_calls = 0], Matched[ut], now))
    /\ turns' = turns + 1
    /\ UNCHANGED now /\ Config

chatbot_response == Receive(Inputs, MaxTurns)

chatbot_response_again == Receive(RepeatInputs, MaxRepeat)

chatbot_response_case == Receive(CaseInputs, MaxRepeat)

(* one candidate of try_tools_sequence is called *)
try_tools_sequence ==
    /\ pc = "try_tools_sequence"
    /\ \E result \in ToolOutcomes(Head(chain), arg) : Apply(SequenceStep(Cur, now, result))
    /\ UNCHANGED <<now, user_text, turns>> /\ Config

(* chatbot_response calls a provider itself *)
direct_call ==
    /\ pc \in DirectPcs
    /\ \E result \in ToolOutcomes(Head(chain), arg) :
         \E c \in (IF Len(chain) = 1 /\ result = None /\ pc = "quick_joke"
                   THEN 1..Len(JOKE_FALLBACKS)
                   ELSE IF Len(chain) = 1 /\ result = None /\ pc = "respond_search"
                   THEN 1..Len(FINAL_FALLBACKS)
                   ELSE {1}) :
            Apply(DirectStep(Cur, result, c))
    /\ UNCHANGED <<now, user_text, turns>> /\ Config

(* the tool chosen by the intent is called *)
call_tool ==
    /\ pc = "call_tool"
    /\ \E result \in ToolOutcomes(Head(chain), arg) : Apply(CallToolStep(Cur, result))
    /\ UNCHANGED <<now, user_text, turns>> /\ Config

(* the language model answers a request *)
hf_answer ==
    /\ pc \in HfPcs
    /\ \E hf_resp \in hf_query_raw(IF pc = "planner_intent" THEN PlannerTexts ELSE FreeTexts) :
         Apply(HfStep(Cur, now, hf_resp))
    /\ UNCHANGED <<now, user_text, turns>> /\ Config

(* time passes *)
Tick ==
    /\ now < MaxTime
    /\ now' = now + 1
    /\ UNCHANGED <<_cache, _chat_history, pc, user_text, text, site, cache_key, arg,
                   chain, tool_name, tool_out, calls, hf_calls, reply, raised, turns,
                   seq_log>>
    /\ Config

Next ==
    \/ chatbot_response
    \/ try_tools_sequence
    \/ direct_call
    \/ call_tool
    \/ hf_answer
    \/ Tick

Spec == Init /\ [][Next]_vars

(* a user who repeats messages, the language model being configured *)
RepeatInit == Init /\ HF_KEY

RepeatNext ==
    \/ chatbot_response_again
    \/ try_tools_sequence
    \/ Tick

SpecRepeat == RepeatInit /\ [][RepeatNext]_vars

(* one user who keeps asking for a map, no key configured *)
chatbot_response_chat == Receive({"map lagos"}, MaxChat)

ChatNext ==
    \/ chatbot_response_chat
    \/ direct_call

ChatInit == Init /\ ~HF_KEY /\ ~OWM_KEY

SpecChat == ChatInit /\ [][ChatNext]_vars

CaseNext ==
    \/ chatbot_response_case
    \/ try_tools_sequence
    \/ Tick

SpecCase == RepeatInit /\ [][CaseNext]_vars

----------------------------------------------------------------------------
(* heuristic_intent, brain.py:798-877, called on its own *)

(* one phrase for every rule, one that no rule knows, and the messages made
   of one or two of them *)
AskPhrases ==
    { "weather", "what time", "news", "joke", "cat fact", "bored", "number 7",
      "map lagos", "Tablet", "drug", "define", "what is", "universities in ghana",
      "zip 90210", "random user", "ip", "country ghana", "food rice", "search",
      "hello" }

AskTexts == AskPhrases \cup {a \o " " \o b : a, b \in AskPhrases} \cup {"", " "}

(* nothing has been asked yet: a behaviour of SpecAsk is one call *)
NotAsked == h_text = None /\ b_msg = None /\ n_msg = None

(* heuristic_intent(ut) is called *)
classify ==
    /\ NotAsked
    /\ \E ut \in AskTexts :
         /\ h_text' = ut
         /\ h_ret' = heuristic_intent(ut)
    /\ UNCHANGED <<b_msg, b_ret, n_msg, n_ret>>
    /\ keep_ask

(* the router of Brain.py:228-270: the function whose value it returns for
   message, with the argument it hands to it *)
Brain_chatbot_response(message) ==
    LET msg == strip(lower(message))
        To(f, prefix) == [handler |-> f, arg |-> strip(remove(msg, prefix))]
        Just(f) == [handler |-> f, arg |-> ""]
    IN IF AnyIn(msg, <<"hello", "hi", "hey", "good morning", "good evening">>)
       THEN Just("random_greeting")
       ELSE IF AnyIn(msg, <<"bye", "goodbye", "see you", "later">>)
       THEN Just("random_goodbye")
       ELSE IF Contains(msg, "thank") THEN Just("thanks")
       ELSE IF Contains(msg, "joke") THEN Just("get_joke")
       ELSE IF Contains(msg, "fact") THEN Just("get_fun_fact")
       ELSE IF startswith(msg, "summarize ") THEN To("summarize_text", "summarize ")
       ELSE IF startswith(msg, "expand ") THEN To("expand_text", "expand ")
       ELSE IF startswith(msg, "shorten ") THEN To("shorten_text", "shorten ")
       ELSE IF startswith(msg, "paraphrase ") THEN To("paraphrase_text", "paraphrase ")
       ELSE IF startswith(msg, "drug ") THEN To("get_drug_info", "drug ")
       ELSE IF startswith(msg, "wiki ") THEN To("search_wikipedia", "wiki ")
       ELSE IF startswith(msg, "weather ") THEN To("get_weather_info", "weather ")
       ELSE IF Contains(msg, "news") THEN Just("get_news")
       ELSE IF Contains(msg, "time") \/ Contains(msg, "date") THEN Just("get_datetime")
       ELSE IF Contains(msg, "help") \/ msg = "/help" THEN Just("get_help")
       ELSE Just("random_fallback")

(* chatbot_response(message) of Brain.py is called with an example of the
   help menu or a message of its forms *)
route ==
    /\ NotAsked
    /\ \E message \in { "drug ibuprofen", "drug paracetamol", "drug thiamine",
                         "wiki diabetes", "wiki white blood cells", "weather Lagos",
                         "Weather New York", "weather Chicago", "summarize a report",
                         "expand the news", "shorten see you later",
                         "paraphrase thank you", "news health", "joke", "fact",
                         "what time is it", "/help", "good morning", "" } :
         /\ b_msg' = message
         /\ b_ret' = Brain_chatbot_response(message)
    /\ UNCHANGED <<h_text, h_ret, n_msg, n_ret>>
    /\ keep_ask

(* brain_new.py:122-138: a manufacturing pattern or a risky word in the
   lowered text *)
is_unsafe_request(txt) ==
    LET t == lower(txt)
        seps == {"", " ", "-", "\t", "\n"}
    IN \/ \E v \in {"synthesize", "produce", "manufactur", "make"} :
              Contains(t, "how to " \o v \o " ")
       \/ \E a, b \in seps, n \in {"recipe", "protocol", "procedure"} :
              Contains(t, "step" \o a \o "by" \o b \o "step " \o n)
       \/ Contains(t, "process to produce")
       \/ AnyIn(t, <<"synthesis", "synthesize", "lab protocol", "ferment",
                     "batch recipe", "reactor", "how to make", "manufactur">>)

(* chatbot_response(message) (brain_new.py:45-49) or
   chatbot_response_new(message) (brain_new.py:526-533) is called; what
   they store is modelled with the threads that run them *)
brain_new_reply ==
    /\ NotAsked
    /\ \E message \in { "how to synthesize aspirin", "How to make paracetamol at home",
                         "step-by-step protocol for insulin", "ingredients aspirin",
                         "label amoxicillin" } :
         /\ n_msg' = message
         /\ n_ret' \in {"Echo from brain_new: " \o message,
                        "Brain_new processed: " \o message}
    /\ UNCHANGED <<h_text, h_ret, b_msg, b_ret>>
    /\ keep_ask

AskNext ==
    \/ classify
    \/ route
    \/ brain_new_reply

SpecAsk == Init /\ [][AskNext]_vars

----------------------------------------------------------------------------
(* shared_state.py: key/value pairs with a TTL in an SQLite table.  Both    *)
(* functions do their database work holding the module's lock, so a call   *)
(* is one step.                                                            *)

StateKeys == {"last_user_message", "last_bot_response"}
StateValues == {"hi", "Echo: hi", ""}
StateTtls == {1, 2}

(* INSERT without the ON CONFLICT clause *)
update_state_insert(rows, key, value, ttl, t) ==
    rows \cup {[key |-> key, value |-> "\"" \o value \o "\"", expire_at |-> t + ttl]}

(* shared_state.py:24-37: the table after update_state(key, value, ttl) at
   clock reading t; json.dumps of a str without special characters puts it
   in double quotes *)
update_state(rows, key, value, ttl, t) ==
    {r \in rows : r.key # key}
        \cup {[key |-> key, value |-> "\"" \o value \o "\"", expire_at |-> t + ttl]}

(* shared_state.py:39-52: the values get_state(key) can return at clock
   reading t (fetchone gives one of the rows the SELECT finds); json.loads
   takes the quotes off *)
get_state(rows, key, t) ==
    LET found == {r \in rows : r.key = key}
    IN IF found = {} THEN {None}
       ELSE {IF t > r.expire_at THEN None ELSE SubSeq(r.value, 2, Len(r.value) - 1)
                : r \in found}

StateCall(name, key, value, ttl, ret) ==
    [op |-> name, key |-> key, value |-> value, ttl |-> ttl, at |-> now, ret |-> ret]

update_state_call ==
    /\ Len(state_log) < MaxStateOps
    /\ \E key \in StateKeys, value \in StateValues, ttl \in StateTtls :
         /\ state' = update_state(state, key, value, ttl, now)
         /\ state_log' = Append(state_log, StateCall("update_state", key, value, ttl, None))
    /\ keep_state

get_state_call ==
    /\ Len(state_log) < MaxStateOps
    /\ \E key \in StateKeys :
         \E ret \in get_state(state, key, now) :
            state_log' = Append(state_log, StateCall("get_state", key, None, 0, ret))
    /\ UNCHANGED state
    /\ keep_state

StateNext ==
    \/ update_state_call
    \/ get_state_call
    \/ Tick

SpecState == ChatInit /\ [][StateNext]_vars

----------------------------------------------------------------------------
(* bot.py:13-43: handle_message starts a typing thread, computes the reply, *)
(* sets the thread's stop event and sends the reply.  The event loop runs   *)
(* one handler at a time; the threads of earlier messages run on.           *)

(* bot.py:24-43, one step of the handler *)
handle_message ==
    /\ \/ /\ hm_pc = "idle" /\ hm_msg < MaxMsgs
          /\ hm_msg' = hm_msg + 1
          /\ ty_pc' = [ty_pc EXCEPT ![hm_msg + 1] = "is_set"]   \* thr.start()
          /\ UNCHANGED <<stop_evt, typing_sent>>              \* a new Event is clear
          /\ hm_pc' = "chatbot_response"
       \/ /\ hm_pc = "chatbot_response"                     \* it returns a reply
          /\ hm_pc' = "stop_evt.set"
          /\ UNCHANGED <<hm_msg, stop_evt, ty_pc, typing_sent>>
       \/ /\ hm_pc = "chatbot_response"                     \* it raises
          /\ hm_pc' = "idle"
          /\ UNCHANGED <<hm_msg, stop_evt, ty_pc, typing_sent>>
       \/ /\ hm_pc = "stop_evt.set"
          /\ stop_evt' = [stop_evt EXCEPT ![hm_msg] = TRUE]
          /\ hm_pc' = "reply_text"
          /\ UNCHANGED <<hm_msg, ty_pc, typing_sent>>
       \/ /\ hm_pc = "reply_text"
          /\ hm_pc' = "idle"
          /\ UNCHANGED <<hm_msg, stop_evt, ty_pc, typing_sent>>
    /\ keep_typing

(* bot.py:13-21, one step of the typing thread of message m *)
start_typing(m) ==
    /\ \/ /\ ty_pc[m] = "is_set"                            \* while not is_set()
          /\ ty_pc' = [ty_pc EXCEPT ![m] = IF stop_evt[m] THEN "exit" ELSE "post"]
          /\ UNCHANGED typing_sent
       \/ /\ ty_pc[m] = "post"                              \* requests.post, try/except
          /\ ty_pc' = [ty_pc EXCEPT ![m] = "wait"]
          /\ typing_sent' = [typing_sent EXCEPT ![m] = TRUE]
       \/ /\ ty_pc[m] = "wait"                              \* stop_event.wait(2.5)
          /\ ty_pc' = [ty_pc EXCEPT ![m] = "is_set"]
          /\ UNCHANGED typing_sent
    /\ UNCHANGED <<hm_pc, hm_msg, stop_evt>>
    /\ keep_typing

TypingNext ==
    \/ handle_message
    \/ \E m \in 1..MaxMsgs : start_typing(m)

(* the handler and every started thread keep running *)
SpecTyping ==
    /\ ChatInit /\ [][TypingNext]_vars
    /\ WF_vars(handle_message)
    /\ \A m \in 1..MaxMsgs : WF_vars(start_typing(m))

----------------------------------------------------------------------------
(* The stub entry points run by several threads.  A statement that reads   *)
(* or writes shared storage is one step.                                   *)

ThreadMessages == {"hi", "bye"}

At(t, from, to) == th_pc[t] = from /\ th_pc' = [th_pc EXCEPT ![t] = to]

(* the stub without its with lock: *)
chatbot_response_new_unlocked(t) ==
    /\ \/ /\ \E message \in ThreadMessages, prefix \in {"Brain_new processed: ", "Echo: "} :
               /\ th_msg' = [th_msg EXCEPT ![t] = message]
               /\ th_resp' = [th_resp EXCEPT ![t] = prefix \o message]
          /\ At(t, "idle", "write_user")
          /\ UNCHANGED <<shared_data, lock>>
       \/ /\ At(t, "write_user", "write_bot")
          /\ shared_data' = [shared_data EXCEPT !.last_user_message = th_msg[t]]
          /\ UNCHANGED <<th_msg, th_resp, lock>>
       \/ /\ At(t, "write_bot", "done")
          /\ shared_data' = [shared_data EXCEPT !.last_bot_response = th_resp[t]]
          /\ UNCHANGED <<th_msg, th_resp, lock>>
    /\ keep_threads

(* brain_new.py:526-533 (response "Brain_new processed: ...") and
   brain.py:733-740 (response "Echo: ..."), one step of thread t *)
chatbot_response_new(t) ==
    /\ \/ /\ \E message \in ThreadMessages, prefix \in {"Brain_new processed: ", "Echo: "} :
               /\ th_msg' = [th_msg EXCEPT ![t] = message]
               /\ th_resp' = [th_resp EXCEPT ![t] = prefix \o message]
          /\ At(t, "idle", "acquire")
          /\ UNCHANGED <<shared_data, lock>>
       \/ /\ At(t, "acquire", "write_user") /\ lock = 0          \* with lock:
          /\ lock' = t
          /\ UNCHANGED <<th_msg, th_resp, shared_data>>
       \/ /\ At(t, "write_user", "write_bot")
          /\ shared_data' = [shared_data EXCEPT !.last_user_message = th_msg[t]]
          /\ UNCHANGED <<th_msg, th_resp, lock>>
       \/ /\ At(t, "write_bot", "release")
          /\ shared_data' = [shared_data EXCEPT !.last_bot_response = th_resp[t]]
          /\ UNCHANGED <<th_msg, th_resp, lock>>
       \/ /\ At(t, "release", "done")
          /\ lock' = 0
          /\ UNCHANGED <<th_msg, th_resp, shared_data>>
    /\ UNCHANGED state
    /\ keep_threads_state

(* brain_new.py:45-49 (response "Echo from brain_new: ...") and
   brain.py:34-42 (response "I got your message: ..."), one step of thread
   t; update_state takes its default ttl of 300 *)
chatbot_response_stored(t) ==
    /\ \/ /\ \E message \in ThreadMessages,
                prefix \in {"Echo from brain_new: ", "I got your message: "} :
               /\ th_msg' = [th_msg EXCEPT ![t] = message]
               /\ th_resp' = [th_resp EXCEPT ![t] = prefix \o message]
          /\ At(t, "idle", "update_user")
          /\ UNCHANGED state
       \/ /\ At(t, "update_user", "update_bot")
          /\ state' = update_state(state, "last_user_message", th_msg[t], 300, now)
          /\ UNCHANGED <<th_msg, th_resp>>
       \/ /\ At(t, "update_bot", "stored")
          /\ state' = update_state(state, "last_bot_response", th_resp[t], 300, now)
          /\ UNCHANGED <<th_msg, th_resp>>
    /\ UNCHANGED <<shared_data, lock>>
    /\ keep_threads_state

ThreadsNext ==
    \E t \in 1..MaxThreads :
        \/ chatbot_response_new(t)
        \/ chatbot_response_stored(t)

SpecThreads == ChatInit /\ [][ThreadsNext]_vars

----------------------------------------------------------------------------
(* _safe_get, brain.py:368-381 *)

(* what one requests.get can do: answer with a status, or raise a
   requests.RequestException *)
RequestExceptions == {"Timeout", "ConnectionError"}
GetOutcomes == {"200", "404", "503"} \cup RequestExceptions

(* the Response of the attempt-th requests.get *)
Response(i) == [status |-> "200", attempt |-> i]

(* range(retries + 1) *)
InRange_inclusive(i, n) == i <= n

(* i in range(n), brain.py:373 *)
InRange(i, n) == i < n

(* brain.py:374-379: "return" r, or go on to time.sleep *)
safe_get_try(outcome) ==
    IF outcome \in RequestExceptions THEN "sleep"
    ELSE IF outcome = "200" THEN "return"
    ELSE "sleep"

(* _safe_get(url, retries=n) is called *)
safe_get_call ==
    /\ sg_pc \in {"idle", "done"} /\ sg_calls < MaxSafeGets
    /\ \E n \in 0..MaxRetries :
         /\ retries' = n
         /\ sg_pc' = IF InRange(0, n) THEN "get" ELSE "done"
    /\ attempt' = 0 /\ statuses' = <<>> /\ sg_ret' = NoResponse /\ slept' = 0
    /\ sg_calls' = sg_calls + 1
    /\ UNCHANGED <<brain_vars, ops, later_vars>>

(* requests.get answers or raises *)
requests_get ==
    /\ sg_pc = "get"
    /\ \E outcome \in GetOutcomes :
         /\ statuses' = Append(statuses, outcome)
         /\ IF safe_get_try(outcome) = "return"
            THEN sg_pc' = "done" /\ sg_ret' = Response(attempt)
            ELSE sg_pc' = "sleep" /\ sg_ret' = sg_ret
    /\ UNCHANGED <<retries, attempt, slept, sg_calls>>
    /\ UNCHANGED <<brain_vars, ops, later_vars>>

(* time.sleep(0.25 * (attempt + 1)) returns; the loop goes on or ends *)
time_sleep ==
    /\ sg_pc = "sleep"
    /\ slept' = slept + (attempt + 1)
    /\ attempt' = attempt + 1
    /\ sg_pc' = IF InRange(attempt + 1, retries) THEN "get" ELSE "done"
    /\ UNCHANGED <<retries, statuses, sg_ret, sg_calls>>
    /\ UNCHANGED <<brain_vars, ops, later_vars>>

SafeGetInit == Init /\ ~HF_KEY /\ ~OWM_KEY

SafeGetNext ==
    \/ safe_get_call
    \/ requests_get
    \/ time_sleep

(* requests.get is given a timeout and time.sleep a duration: both return *)
SpecSafeGet ==
    SafeGetInit /\ [][SafeGetNext]_vars /\ WF_vars(requests_get) /\ WF_vars(time_sleep)

----------------------------------------------------------------------------
(* class TTLCache, brain.py:340-365: any caller, any order of methods *)

CacheKeys == {"a", "b", "c"}
CacheVals == {"x", "y"}

Op(name, k, val, ret) == [op |-> name, k |-> k, val |-> val, t |-> now, ret |-> ret]

(* the variables of chatbot_response other than the cache *)
handler_vars == <<HF_KEY, OWM_KEY, WEATHERAPI_KEY, WEATHERBIT_KEY, now,
                  _chat_history, pc, user_text, text, site, cache_key, arg, chain,
                  tool_name, tool_out, calls, hf_calls, reply, raised, turns, seq_log>>

cache_set ==
    /\ Len(ops) < MaxOps
    /\ \E k \in CacheKeys, val \in CacheVals :
         /\ _cache' = TTLCache_set(_cache, CACHE_TTL, k, val, now)
         /\ ops' = Append(ops, Op("set", k, val, None))
    /\ UNCHANGED <<handler_vars, safe_get_vars, later_vars>>

cache_get ==
    /\ Len(ops) < MaxOps
    /\ \E k \in CacheKeys :
         /\ _cache' = TTLCache_get_d(_cache, k, now)
         /\ ops' = Append(ops, Op("get", k, None, TTLCache_get(_cache, k, now)))
    /\ UNCHANGED <<handler_vars, safe_get_vars, later_vars>>

cache_delete ==
    /\ Len(ops) < MaxOps
    /\ \E k \in CacheKeys :
         /\ _cache' = TTLCache_delete(_cache, k)
         /\ ops' = Append(ops, Op("delete", k, None, None))
    /\ UNCHANGED <<handler_vars, safe_get_vars, later_vars>>

cache_clear ==
    /\ Len(ops) < MaxOps
    /\ _cache' = TTLCache_clear(_cache)
    /\ ops' = Append(ops, Op("clear", "", None, None))
    /\ UNCHANGED <<handler_vars, safe_get_vars, later_vars>>

CacheInit == Init /\ ~HF_KEY /\ ~OWM_KEY

CacheNext ==
    \/ cache_set
    \/ cache_get
    \/ cache_delete
    \/ cache_clear
    \/ Tick

SpecCache == CacheInit /\ [][CacheNext]_vars

----------------------------------------------------------------------------
(* class TTLCache of brain_new.py:102-118 next to the one of brain.py.  Its *)
(* set is the set of brain.py, statement for statement.                     *)

(* TTLCache.get of brain_new.py at clock reading t: the value returned and
   the dict it leaves.  item is a pair, never falsy, so `if not item` is the
   test for a missing key. *)
TTLCache_new_get(d, k, t) ==
    IF k \notin DOMAIN d THEN [ret |-> None, d |-> d]
    ELSE IF t > d[k][1] THEN [ret |-> None, d |-> Without(d, k)]
    ELSE [ret |-> d[k][2], d |-> d]

(* one call made on both caches at the same clock reading *)
TTLCache_both ==
    /\ tw_ops < MaxTwinOps
    /\ tw_ops' = tw_ops + 1
    /\ \E k \in CacheKeys :
         \/ \E val \in CacheVals :
              /\ tw_d' = TTLCache_set(tw_d, CACHE_TTL, k, val, now)
              /\ tw_new_d' = TTLCache_set(tw_new_d, CACHE_TTL, k, val, now)
              /\ tw_ret' = <<None, None>>
         \/ /\ tw_d' = TTLCache_get_d(tw_d, k, now)
            /\ tw_new_d' = TTLCache_new_get(tw_new_d, k, now).d
            /\ tw_ret' = <<TTLCache_get(tw_d, k, now), TTLCache_new_get(tw_new_d, k, now).ret>>
    /\ keep_twin

TwinNext ==
    \/ TTLCache_both
    \/ Tick

SpecTwin == ChatInit /\ [][TwinNext]_vars

----------------------------------------------------------------------------
(* class TTLCache, brain.py:340-365 and brain_new.py:102-118, called by     *)
(* several threads on the key RaceKey with no lock.  A statement that reads *)
(* or writes self.d is one step; a thread whose statement raises KeyError   *)
(* stops there.                                                             *)

RaceKey == "a"

Goto(t, from, to) == rc_pc[t] = from /\ rc_pc' = [rc_pc EXCEPT ![t] = to]

TTLCache_call(t) ==
    /\ \/ /\ rc_ops < MaxRaceOps
          /\ rc_ops' = rc_ops + 1
          /\ \E m \in {"set", "get: k in self.d", "get: self.d.get(k)", "delete: k in self.d"} :
               Goto(t, "idle", m)
          /\ UNCHANGED <<rc_expiry, rc_d, rc_lost>>
       \* set: self.d[k] = (time.time() + self.ttl, val)
       \/ /\ Goto(t, "set", "idle")
          /\ rc_d' = TTLCache_set(rc_d, CACHE_TTL, RaceKey, "x", now)
          /\ UNCHANGED <<rc_expiry, rc_lost, rc_ops>>
       \* get of brain.py: if k in self.d:
       \/ /\ \/ RaceKey \in DOMAIN rc_d /\ Goto(t, "get: k in self.d", "get: self.d[k]")
             \/ RaceKey \notin DOMAIN rc_d /\ Goto(t, "get: k in self.d", "idle")
          /\ UNCHANGED <<rc_expiry, rc_d, rc_lost, rc_ops>>
       \* expiry, val = self.d[k]
       \/ /\ \/ /\ RaceKey \in DOMAIN rc_d
                /\ Goto(t, "get: self.d[k]", "get: compare")
                /\ rc_expiry' = [rc_expiry EXCEPT ![t] = rc_d[RaceKey][1]]
             \/ /\ RaceKey \notin DOMAIN rc_d
                /\ Goto(t, "get: self.d[k]", "KeyError")
                /\ UNCHANGED rc_expiry
          /\ UNCHANGED <<rc_d, rc_lost, rc_ops>>
       \* get of brain_new.py: item = self.d.get(k); if not item: return None
       \/ /\ \/ /\ RaceKey \in DOMAIN rc_d
                /\ Goto(t, "get: self.d.get(k)", "get: compare")
                /\ rc_expiry' = [rc_expiry EXCEPT ![t] = rc_d[RaceKey][1]]
             \/ /\ RaceKey \notin DOMAIN rc_d
                /\ Goto(t, "get: self.d.get(k)", "idle")
                /\ UNCHANGED rc_expiry
          /\ UNCHANGED <<rc_d, rc_lost, rc_ops>>
       \* if expiry > time.time(): return val (brain.py; brain_new.py differs
       \* at the instant of expiry only, which needs no second thread)
       \/ /\ \/ rc_expiry[t] > now /\ Goto(t, "get: compare", "idle")
             \/ ~(rc_expiry[t] > now) /\ Goto(t, "get: compare", "get: del self.d[k]")
          /\ UNCHANGED <<rc_expiry, rc_d, rc_lost, rc_ops>>
       \* del self.d[k]
       \/ /\ \/ /\ RaceKey \in DOMAIN rc_d
                /\ Goto(t, "get: del self.d[k]", "idle")
                /\ rc_d' = Without(rc_d, RaceKey)
                /\ rc_lost' = (rc_lost \/ rc_d[RaceKey][1] > now)
             \/ /\ RaceKey \notin DOMAIN rc_d
                /\ Goto(t, "get: del self.d[k]", "KeyError")
                /\ UNCHANGED <<rc_d, rc_lost>>
          /\ UNCHANGED <<rc_expiry, rc_ops>>
       \* delete: if k in self.d:
       \/ /\ \/ RaceKey \in DOMAIN rc_d /\ Goto(t, "delete: k in self.d", "delete: del self.d[k]")
             \/ RaceKey \notin DOMAIN rc_d /\ Goto(t, "delete: k in self.d", "idle")
          /\ UNCHANGED <<rc_expiry, rc_d, rc_lost, rc_ops>>
       \* del self.d[k]
       \/ /\ \/ /\ RaceKey \in DOMAIN rc_d
                /\ Goto(t, "delete: del self.d[k]", "idle")
                /\ rc_d' = Without(rc_d, RaceKey)
             \/ /\ RaceKey \notin DOMAIN rc_d
                /\ Goto(t, "delete: del self.d[k]", "KeyError")
                /\ UNCHANGED rc_d
          /\ UNCHANGED <<rc_expiry, rc_lost, rc_ops>>
    /\ keep_race

RaceNext ==
    \/ \E t \in 1..MaxThreads : TTLCache_call(t)
    \/ Tick

SpecRace == ChatInit /\ [][RaceNext]_vars

----------------------------------------------------------------------------
(* Properties *)

Last(q) == q[Len(q)]

(* a provider's outcome that is a result *)
NonEmpty(x) == x \notin {None, Raise, Pending, ""}

Failed(x) == x \in {None, Raise, ""}

(* C1: on a cache miss try_tools_sequence calls its candidates one at a time
   in list order; every candidate called before the last one called gave no
   result, so nothing is called after the first non-empty result; the call
   returns that result, or None after the whole list gave none.  For the
   weather capability the list is openweather, weatherapi, weatherbit,
   open_meteo, wttr.in. *)
C1_InOrderFirstResult ==
    \A i \in DOMAIN seq_log :
        LET e == seq_log[i]
            n == Len(e.tried)
        IN /\ n <= Len(e.cands)
           /\ \A j \in 1..n : e.tried[j][1] = e.cands[j]
           /\ \A j \in 1..(n - 1) : Failed(e.tried[j][2])
           /\ (e.res = Pending) => \A j \in 1..n : Failed(e.tried[j][2])
           /\ (e.res # Pending /\ n > 0) =>
                 IF NonEmpty(e.tried[n][2]) THEN e.res = e.tried[n][2]
                 ELSE e.res = None /\ n = Len(e.cands)
           /\ startswith(e.key, "weather:") =>
                 e.cands = <<"openweather", "weatherapi", "weatherbit", "open_meteo", "wttr">>

(* 'weather Lagos': open_meteo answers after three providers gave nothing,
   and wttr.in is not called *)
C1_Witness ==
    /\ pc = "idle" /\ user_text = "weather Lagos" /\ seq_log # <<>>
    /\ Len(Last(seq_log).tried) = 4
    /\ Last(seq_log).tried[4] = <<"open_meteo", ToolResult("open_meteo", "Lagos", 1)>>
    /\ reply = ToolResult("open_meteo", "Lagos", 1)

(* C2: when a try_tools_sequence call fetched a non-empty result, a later
   call with the same capability and argument that starts before the TTL
   has elapsed calls no provider and returns the identical string; and a
   'wiki <topic>' message repeated right after one that fetched a result,
   within the TTL, gets the identical reply with no provider call. *)
C2_SecondCallCached ==
    \A i, j \in DOMAIN seq_log :
        (/\ i < j /\ seq_log[i].key = seq_log[j].key
         /\ seq_log[i].tried # <<>> /\ NonEmpty(seq_log[i].res)
         /\ seq_log[j].start < seq_log[i].at + CACHE_TTL)
        => (seq_log[j].tried = <<>> /\ seq_log[j].res = seq_log[i].res)

C2_WikiAgain ==
    (/\ pc = "idle" /\ turns' = turns + 1
     /\ startswith(user_text, "wiki ") /\ user_text' = user_text
     /\ seq_log # <<>> /\ Last(seq_log).tried # <<>> /\ NonEmpty(Last(seq_log).res)
     /\ now < Last(seq_log).at + CACHE_TTL)
    => (pc' = "idle" /\ ~raised' /\ reply' = reply /\ calls' = <<>>)

(* C2: both hold, of every call of try_tools_sequence and of every repeated
   'wiki <topic>' message *)
C2_CachedWithinTTL == []C2_SecondCallCached /\ [][C2_WikiAgain]_vars

(* 'wiki malaria' twice: the second reply comes from the cache *)
C2_Witness ==
    /\ pc = "idle" /\ turns = 2 /\ user_text = "wiki malaria"
    /\ Len(seq_log) = 2 /\ seq_log[1].tried # <<>> /\ seq_log[2].tried = <<>>
    /\ NonEmpty(seq_log[1].res) /\ seq_log[2].res = seq_log[1].res
    /\ seq_log[2].start < seq_log[1].at + CACHE_TTL
    /\ reply = seq_log[1].res /\ calls = <<>>
    /\ Len(_chat_history) = 2 /\ _chat_history[1] = _chat_history[2]

(* C3: when every provider of the chain gave no result, a second call with
   the same capability and argument that starts before the TTL has elapsed
   is served from the cache: it calls no provider. *)
C3_NoResultCached ==
    \A i, j \in DOMAIN seq_log :
        (/\ i < j /\ seq_log[i].key = seq_log[j].key
         /\ seq_log[i].tried # <<>> /\ seq_log[i].res = None
         /\ seq_log[j].start < seq_log[i].at + CACHE_TTL)
        => seq_log[j].tried = <<>>

(* C4: a try_tools_sequence call that starts once the TTL has elapsed since
   the last call that fetched for the same capability and argument is a
   miss: its read removes the expired entry, the providers are called again,
   and what they give is returned and is what the cache then holds. *)
C4_ExpiredIsMiss ==
    \A i, j \in DOMAIN seq_log :
        LET a == seq_log[i]
            b == seq_log[j]
        IN (/\ i < j /\ a.key = b.key /\ a.tried # <<>> /\ a.res # Pending
            /\ \A k \in (i + 1)..(j - 1) : seq_log[k].key = a.key => seq_log[k].tried = <<>>
            /\ b.start >= a.at + CACHE_TTL)
           => /\ (b.res = Pending) =>
                    /\ j = Len(seq_log) /\ pc = "try_tools_sequence" /\ chain # <<>>
                    /\ b.key \notin DOMAIN _cache
              /\ (b.res # Pending) =>
                    /\ b.tried # <<>>
                    /\ b.res = (IF NonEmpty(Last(b.tried)[2]) THEN Last(b.tried)[2] ELSE None)
                    /\ (\A k \in (j + 1)..Len(seq_log) : seq_log[k].key # b.key)
                         => /\ b.key \in DOMAIN _cache
                            /\ _cache[b.key] = <<b.at + CACHE_TTL, b.res>>

(* 'wiki malaria' again after the TTL: a fresh, different result *)
C4_Witness ==
    /\ pc = "idle" /\ turns = 2 /\ user_text = "wiki malaria"
    /\ Len(seq_log) = 2 /\ seq_log[1].key = seq_log[2].key
    /\ NonEmpty(seq_log[1].res) /\ NonEmpty(seq_log[2].res)
    /\ seq_log[2].start >= seq_log[1].at + CACHE_TTL
    /\ seq_log[2].res # seq_log[1].res /\ reply = seq_log[2].res
    /\ _cache[seq_log[2].key] = <<seq_log[2].at + CACHE_TTL, reply>>

(* the capability of the running try_tools_sequence call *)
Capability(c) == startswith(cache_key, c \o ":")

(* this step is the call of the last candidate, and with it every candidate
   of the chain has given no result or raised *)
ChainExhausted ==
    /\ pc = "try_tools_sequence" /\ Len(seq_log') = Len(seq_log)
    /\ LET e == Last(seq_log')
       IN /\ Len(e.tried) = Len(Last(seq_log).tried) + 1
          /\ Len(e.tried) = Len(e.cands)
          /\ \A j \in 1..Len(e.tried) : Failed(e.tried[j][2])

MentionsNews == Contains(lower(text), "news") \/ Contains(lower(text), "headline")

(* C5 as stated: when every provider of the weather, knowledge or news
   chain gave no result or raised, try_tools_sequence returns None and the
   reply is the capability's message, news having the one message
   "Couldn't fetch news right now."; no exception leaves chatbot_response. *)
C5_OneMessagePerCapability ==
    [][ /\ (pc = "try_tools_sequence" /\ pc' = "idle") => ~raised'
        /\ (ChainExhausted /\ (Capability("weather") \/ Capability("knowledge")
                                \/ Capability("news")))
           => /\ Last(seq_log').res = None /\ pc' = "idle"
              /\ reply' = (IF Capability("weather")
                            THEN "Couldn't fetch weather for *" \o arg \o "*."
                            ELSE IF Capability("knowledge")
                            THEN "No results for *" \o arg \o "*."
                            ELSE "Couldn't fetch news right now.") ]_vars

(* C5 as amended: the same, the message of the news capability being
   "Couldn't fetch news right now." for a message that mentions news or
   headline, and "No news right now." when the planner chose the news group
   for another message. *)
C5_FixedMessages ==
    [][ /\ (pc = "try_tools_sequence" /\ pc' = "idle") => ~raised'
        /\ (ChainExhausted /\ (Capability("weather") \/ Capability("knowledge")
                                \/ Capability("news")))
           => /\ Last(seq_log').res = None /\ pc' = "idle"
              /\ reply' = (IF Capability("weather")
                            THEN "Couldn't fetch weather for *" \o arg \o "*."
                            ELSE IF Capability("knowledge")
                            THEN "No results for *" \o arg \o "*."
                            ELSE IF MentionsNews THEN "Couldn't fetch news right now."
                            ELSE "No news right now.") ]_vars

(* 'weather Lagos', every provider failing, one of them by raising *)
C5_Witness ==
    /\ pc = "idle" /\ ~raised /\ user_text = "weather Lagos" /\ seq_log # <<>>
    /\ Last(seq_log).res = None /\ Len(Last(seq_log).tried) = 5
    /\ \E j \in 1..5 : Last(seq_log).tried[j][2] = Raise
    /\ reply = "Couldn't fetch weather for *Lagos*."

(* C6: every call of chatbot_response returns one non-empty string: it does
   not raise, and returns neither None nor "". *)
C6_AlwaysOneReply ==
    (pc = "idle" /\ turns > 0) => (~raised /\ reply # None /\ reply # "")

IsBlank(s) == s = None \/ \A i \in 1..Len(s) : Ch(s, i) \in WS

(* C7: for an input that is None, empty or only whitespace chatbot_response
   returns "Say something so I can help" at once: no adapter and no model
   call, the cache and the chat history as they were. *)
C7_BlankInput ==
    [][ (pc = "idle" /\ turns' = turns + 1 /\ IsBlank(user_text'))
        => /\ pc' = "idle" /\ ~raised'
           /\ reply' = "Say something so I can help"
           /\ calls' = <<>> /\ hf_calls' = 0 /\ seq_log' = seq_log
           /\ _cache' = _cache /\ _chat_history' = _chat_history ]_vars

(* a blank message after one that left a cache entry and a history entry *)
C7_Witness ==
    /\ pc = "idle" /\ turns = 2 /\ user_text = " \n "
    /\ reply = "Say something so I can help"
    /\ DOMAIN _cache # {} /\ _chat_history # <<>>
    /\ calls = <<>> /\ hf_calls = 0

Fns(cs) == {cs[i][1] : i \in 1..Len(cs)}

(* C8: a message that begins with 'weather ', 'drug ', 'wiki ' or 'map ' is
   handled by the adapters of that capability alone: no other adapter is
   called and the model is not asked. *)
C8_PrefixDecides ==
    turns > 0 =>
        /\ startswith(user_text, "weather ")
             => (Fns(calls) \subseteq {"openweather", "weatherapi", "weatherbit",
                                       "open_meteo", "wttr"} /\ hf_calls = 0)
        /\ startswith(user_text, "drug ")
             => (Fns(calls) \subseteq {"openfda", "rxnav", "dailymed", "rximage"}
                 /\ hf_calls = 0)
        /\ startswith(user_text, "wiki ")
             => (Fns(calls) \subseteq {"wikipedia", "duckduckgo", "dictionary"}
                 /\ hf_calls = 0)
        /\ startswith(user_text, "map ")
             => (Fns(calls) \subseteq {"map"} /\ hf_calls = 0)

(* the adapters fns were all called for the last message, and all failed *)
AllFailed(fns) ==
    \A f \in fns : \E i \in 1..Len(calls) : calls[i][1] = f /\ Failed(calls[i][2])

(* C9 as stated: 'drug ibuprofen' with OpenFDA, RxNav and DailyMed failing
   is answered with the no-drug-info template, whatever else happens. *)
C9_ThreeProvidersFail ==
    (/\ pc = "idle" /\ turns > 0 /\ user_text = "drug ibuprofen"
     /\ AllFailed({"openfda", "rxnav", "dailymed"}))
    => reply = "Sorry, no drug info found for *ibuprofen*."

(* C9 as amended: 'drug ibuprofen' is answered with the no-drug-info
   template when OpenFDA, RxNav, DailyMed, RxImage and the Wikipedia and
   DuckDuckGo fallback have all been called and have all failed. *)
C9_AllSixFail ==
    (/\ pc = "idle" /\ turns > 0 /\ user_text = "drug ibuprofen"
     /\ AllFailed({"openfda", "rxnav", "dailymed", "rximage", "wikipedia", "duckduckgo"}))
    => (~raised /\ reply = "Sorry, no drug info found for *ibuprofen*.")

C9_Witness ==
    /\ pc = "idle" /\ user_text = "drug ibuprofen" /\ Len(calls) = 6
    /\ AllFailed({"openfda", "rxnav", "dailymed", "rximage", "wikipedia", "duckduckgo"})
    /\ reply = "Sorry, no drug info found for *ibuprofen*."

(* C10: when an adapter called for a message failed, the reply does not
   carry the text of the exception. *)
C10_NoRawError ==
    (pc = "idle" /\ turns > 0 /\ \E i \in 1..Len(calls) : Failed(calls[i][2]))
    => (~Contains(reply, ExcText) /\ ~Contains(reply, "Tool call failed"))

(* C11: _safe_get makes at most retries GET attempts; it returns the
   Response of the first attempt whose status is 200 and makes no attempt
   after it; it returns None when every one of its retries attempts ended in
   another status or in a transport exception; and every call returns. *)
C11_Attempts ==
    LET n == Len(statuses)
        ok == {i \in 1..n : statuses[i] = "200"}
    IN /\ n <= retries
       /\ ok \subseteq {n}
       /\ sg_pc = "done" =>
             IF ok # {} THEN sg_ret = Response(n - 1)
             ELSE sg_ret = NoResponse /\ n = retries

C11_SafeGet == []C11_Attempts /\ ((sg_pc \in {"get", "sleep"}) ~> (sg_pc = "done"))

(* a timeout, then a 200 at the second attempt of two *)
C11_Witness ==
    /\ sg_pc = "done" /\ retries = 2 /\ statuses = <<"Timeout", "200">>
    /\ sg_ret = Response(1) /\ slept = 1

(* what C12 says the i-th call, a get, returns *)
LatestSet(i) ==
    LET J == {j \in 1..(i - 1) : ops[j].op = "set" /\ ops[j].k = ops[i].k}
    IN IF J = {} THEN 0 ELSE Max(J)

Dropped(j, i) ==
    \E m \in (j + 1)..(i - 1) :
        ops[m].op = "clear" \/ (ops[m].op = "delete" /\ ops[m].k = ops[i].k)

C12_GetReturns ==
    \A i \in DOMAIN ops :
        ops[i].op = "get" =>
            LET j == LatestSet(i)
            IN ops[i].ret = (IF j # 0 /\ ~Dropped(j, i) /\ ops[i].t - ops[j].t < CACHE_TTL
                             THEN ops[j].val ELSE None)

C12_GetKeepsLive ==
    (Len(ops') = Len(ops) + 1 /\ Last(ops').op = "get")
    => \A k \in DOMAIN _cache :
           _cache[k][1] > now => (k \in DOMAIN _cache' /\ _cache'[k] = _cache[k])

(* C12: over any sequence of set, get, delete, clear and clock advances,
   get(k) returns the value of the latest set(k) when no delete(k) or
   clear() followed it and less than ttl has passed since it, and None
   otherwise; and a get leaves every entry that has not expired as it is. *)
C12_CacheContract == []C12_GetReturns /\ [][C12_GetKeepsLive]_vars

(* set, set again, get: the second value *)
C12_Witness ==
    /\ Len(ops) = 3
    /\ ops[1].op = "set" /\ ops[1].k = "a" /\ ops[1].val = "x"
    /\ ops[2].op = "set" /\ ops[2].k = "a" /\ ops[2].val = "y"
    /\ ops[3].op = "get" /\ ops[3].k = "a" /\ ops[3].ret = "y"
    /\ ops[3].t > ops[1].t

(* C13: the cache never holds more entries than the configured maximum. *)
C13_SizeBounded == Cardinality(DOMAIN _cache) <= CacheMaxSize

(* str.lower of the arguments users repeat, computed once *)
Folded == [s \in {"malaria", "MALARIA", "Lagos"} |-> lower(s)]

Fold(s) == IF s \in DOMAIN Folded THEN Folded[s] ELSE lower(s)

(* C14: two try_tools_sequence calls for one capability whose arguments
   differ in letter case only use one cache key; the later one, starting within
   the TTL of a result the earlier one fetched, calls no provider and
   returns that result. *)
C14_KeysIgnoreCase ==
    \A i, j \in DOMAIN seq_log :
        LET a == seq_log[i]
            b == seq_log[j]
        IN (i < j /\ a.cap = b.cap /\ Fold(a.arg) = Fold(b.arg))
           => /\ a.key = b.key
              /\ (a.tried # <<>> /\ NonEmpty(a.res) /\ b.start < a.at + CACHE_TTL)
                 => (b.tried = <<>> /\ b.res = a.res)

(* 'wiki malaria', then 'wiki MALARIA' answered from the cache *)
C14_Witness ==
    /\ pc = "idle" /\ Len(seq_log) = 2
    /\ seq_log[1].arg = "malaria" /\ seq_log[2].arg = "MALARIA"
    /\ seq_log[1].tried # <<>> /\ NonEmpty(seq_log[1].res)
    /\ seq_log[2].tried = <<>> /\ seq_log[2].res = seq_log[1].res
    /\ reply = seq_log[1].res /\ calls = <<>>

(* the chain of the capability adapter fn belongs to; an adapter of no
   chain is a chain of its own *)
ChainOf(fn) ==
    LET chains == {c \in {DRUG_TOOLS, KNOWLEDGE_TOOLS, WEATHER_TOOLS, NEWS_TOOLS} :
                       \E i \in 1..Len(c) : c[i] = fn}
    IN IF chains = {} THEN <<fn>> ELSE CHOOSE c \in chains : TRUE

(* the adapters tried after the drug chain, brain.py:997 *)
DrugFallbacks == <<"wikipedia", "duckduckgo">>

NoCommand ==
    [ut \in Inputs \cup CaseInputs |->
        LET m == Matched[ut]
        IN /\ m.text # ""
           /\ m.low \notin {"/start", "start", "/help", "help", "commands"}
           /\ m.sum = None /\ m.exp = None /\ m.par = None
           /\ ~WordJoke(m.low)
           /\ ~AnyIn(m.low, <<"cat fact", "catfact", "activity", "bored", "random user">>)
           /\ m.num = None /\ m.drug = None /\ m.know = None
           /\ ~(m.wea # None /\ strip(m.wea) # "")
           /\ m.map = None
           /\ ~AnyIn(m.low, <<"news", "headline">>)]

(* C16: the planner's request to the language model is pending only for a
   message that matched no command or prefix, for which heuristic_intent
   returned None, with HF_KEY set, and before any other outside call; with
   no HF_KEY no request is ever sent to the model and such a message is
   handled as the decision respond, by the search fallback. *)
C16_PlannerLastResort ==
    /\ pc = "planner_intent"
         => /\ HF_KEY /\ NoCommand[user_text]
            /\ Matched[user_text].intent = NoIntent
            /\ calls = <<>> /\ hf_calls = 0
    /\ ~HF_KEY => (hf_calls = 0 /\ pc \notin HfPcs)
    /\ (~HF_KEY /\ turns > 0 /\ NoCommand[user_text]
          /\ Matched[user_text].intent = NoIntent)
         => /\ pc \in {"respond_search", "idle"}
            /\ Fns(calls) \subseteq {"duckduckgo", "wikipedia", "dictionary"}

(* 'hello' with HF_KEY set waits for the planner; nothing else was called *)
C16_Witness ==
    /\ pc = "planner_intent" /\ HF_KEY /\ user_text = "hello"
    /\ NoCommand["hello"] /\ hf_calls = 0

(* answers of the model that hold no decision: the call failed, the text
   holds no JSON object, the object has no action *)
NoDecision ==
    { ErrorDict("503 Server Error"), Generated("I would just answer the user."),
      Generated("{\"tool\": \"joke\"}") }

(* C17: whatever the model answers, planner_intent returns a decision with
   an action; when the call failed, the text holds no JSON object or the
   object has no action, the decision is respond with the message as args,
   chatbot_response goes on to the conversational reply, and that reply is
   returned and remembered without an exception. *)
C17_PlannerFallback ==
    /\ [](pc = "planner_intent" =>
            \A r \in hf_query_raw(PlannerTexts) :
                LET d == planner_decision(text, r)
                IN /\ d.action \in {"respond", "call_tool", "call_tool_group"}
                   /\ r \in NoDecision
                        => /\ d = Intent("respond", None, None, text)
                           /\ HandleIntent(Cur, now, d).pc = "respond_hf")
    /\ [][(pc = "planner_intent" /\ pc' # pc)
            => (hf_calls' = 1 /\ pc' \in {"respond_hf", "call_tool", "no_fn_search",
                                           "try_tools_sequence", "idle"})]_vars
    /\ [][(pc = "respond_hf" /\ pc' # pc) =>
            /\ pc' = "idle" /\ ~raised' /\ reply' \notin {None, ""}
            /\ _chat_history' = Append(_chat_history, [user |-> text, bot |-> reply'])]_vars

(* the planner's request for 'hello' failed and the conversational reply
   was generated *)
C17_Witness ==
    /\ pc = "idle" /\ user_text = "hello" /\ hf_calls = 2 /\ calls = <<>>
    /\ ~raised /\ reply = "generated text #1"
    /\ Last(_chat_history) = [user |-> "hello", bot |-> "generated text #1"]

(* what a call of the model that generated text lets blend_tool_result
   return *)
Blended == {_shorten(strip(x), MAX_REPLY_CHARS) : x \in {y \in FreeTexts : strip(y) # ""}}

(* C18: 'zip 90210' with the zip adapter giving a result is answered with
   the template 'I looked this up for you (source: zip):' followed by that
   result when HF_KEY is not set, and otherwise with the template or with
   text the model generated: a failed call of the model and an empty
   generation give the template. *)
C18_TemplateOnBlendFailure ==
    (/\ pc = "idle" /\ turns > 0 /\ user_text = "zip 90210"
     /\ Len(calls) = 1 /\ NonEmpty(calls[1][2]))
    => \/ reply = "I looked this up for you (source: zip):\n\n" \o calls[1][2]
       \/ HF_KEY /\ hf_calls = 1 /\ reply \in Blended

(* C19: 'zip 90210' with the zip adapter giving nothing is answered with
   'Sorry - external service returned no result.' and the model is not
   asked, HF_KEY set or not. *)
C19_EmptyOutputNoModel ==
    (/\ pc = "idle" /\ turns > 0 /\ user_text = "zip 90210"
     /\ Len(calls) = 1 /\ calls[1][2] \in {None, ""})
    => (reply = "Sorry - external service returned no result." /\ hf_calls = 0)

(* the turns of _chat_history the prompts read, brain.py:917, 1110 *)
RecentTurns == 6

(* C20: _chat_history never holds more than the recent turns the prompts
   read. *)
C20_HistoryBounded == Len(_chat_history) <= RecentTurns

(* C21: the message 'time' is answered with the current time, HF_KEY set
   or not. *)
C21_TimeCommand ==
    (pc = "idle" /\ turns > 0 /\ user_text = "time")
    => (~raised /\ startswith(reply, "Current UTC time: "))

(* the tests of the rules of heuristic_intent on t, in the order C22 gives *)
RuleMatches(t) ==
    << AnyIn(t, <<"weather", "temperature", "forecast", "is it raining", "raining", "rain">>),
       AnyIn(t, <<"what time", "current time", "time now", "date now", "clock">>),
       AnyIn(t, <<"news", "headline">>),
       Contains(t, "joke"),
       AnyIn(t, <<"cat fact", "catfact">>),
       AnyIn(t, <<"activity", "bored">>),
       NumberPrefix(t) # None,
       startswith(t, "map ") \/ Contains(t, "where is ") \/ startswith(t, "show me map"),
       AnyIn(t, <<"drug", "medicine", "tablet", "pill", "side effects", "dosage",
                  "indication", "treat">>),
       AnyIn(t, <<"what is", "who is", "tell me about", "define", "explain",
                  "meaning of", "wiki">>),
       startswith(t, "universities in ") \/ startswith(t, "universities "),
       startswith(t, "zip ") \/ startswith(t, "zipcode "),
       Contains(t, "random user"),
       t \in {"ip", "my ip", "what is my ip"},
       startswith(t, "country "),
       startswith(t, "food ") \/ startswith(t, "openfood "),
       AnyIn(t, <<"search", "look up", "find info", "who is", "what is">>) >>

(* what each rule decides: the tool, or the group *)
RuleTargets ==
    << "weather", "time", "news", "joke", "catfact", "bored", "numbers", "map",
       "drug", "knowledge", "universities", "zip", "randomuser", "ip", "country",
       "openfood", "knowledge" >>

RuleIsGroup == {1, 3, 9, 10, 17}

(* C22: heuristic_intent returns the decision of the first rule, in the
   order weather, time, news, joke, cat fact, activity, number, map, drug,
   knowledge, universities, zip, random user, ip, country, food, search,
   whose test the lowered and stripped message passes, and None exactly
   when it passes none; a message with a drug keyword is never classified
   as knowledge. *)
C22_FirstRuleWins ==
    h_text # None =>
        LET t == strip(lower(h_text))
            m == RuleMatches(t)
            hits == {i \in 1..Len(m) : m[i]}
        IN /\ (h_ret = NoIntent) <=> (hits = {})
           /\ hits # {} =>
                LET k == Min(hits)
                IN IF k \in RuleIsGroup
                   THEN h_ret.action = "call_tool_group" /\ h_ret.group = RuleTargets[k]
                        /\ h_ret.tool = None
                   ELSE h_ret.action = "call_tool" /\ h_ret.tool = RuleTargets[k]
                        /\ h_ret.group = None
           /\ m[9] => h_ret.group # "knowledge"

(* a message with a knowledge keyword and a drug keyword goes to drug *)
C22_Witness ==
    /\ h_text = "define Tablet"
    /\ h_ret = CallGroup("drug", "tablet")

(* C24: in Brain.py a message that starts with 'drug ', 'wiki ',
   'weather ', 'summarize ', 'expand ', 'shorten ' or 'paraphrase ' is
   answered by the function the help menu gives for that form, whatever
   follows the prefix. *)
C24_DocumentedFormsRouted ==
    b_msg # None =>
        LET msg == strip(lower(b_msg))
            Goes(prefix, f) == startswith(msg, prefix) => b_ret.handler = f
        IN /\ Goes("drug ", "get_drug_info")
           /\ Goes("wiki ", "search_wikipedia")
           /\ Goes("weather ", "get_weather_info")
           /\ Goes("summarize ", "summarize_text")
           /\ Goes("expand ", "expand_text")
           /\ Goes("shorten ", "shorten_text")
           /\ Goes("paraphrase ", "paraphrase_text")

(* the latest update_state of the key of call i before it, 0 if none *)
LatestUpdate(i) ==
    LET J == {j \in 1..(i - 1) : /\ state_log[j].op = "update_state"
                                 /\ state_log[j].key = state_log[i].key}
    IN IF J = {} THEN 0 ELSE Max(J)

(* C23: get_state(key) returns the value of the latest update_state(key,
   value, ttl) until more than ttl has passed since it, and None after that
   or when the key was never set; the table holds one row per key, with the
   value and the expiry of the latest update. *)
C23_LatestUnexpired ==
    /\ \A i \in DOMAIN state_log :
          state_log[i].op = "get_state" =>
              LET j == LatestUpdate(i)
              IN state_log[i].ret =
                    (IF j # 0 /\ state_log[i].at <= state_log[j].at + state_log[j].ttl
                     THEN state_log[j].value ELSE None)
    /\ \A r1, r2 \in state : r1.key = r2.key => r1 = r2
    /\ \A key \in StateKeys :
          LET J == {j \in DOMAIN state_log : /\ state_log[j].op = "update_state"
                                             /\ state_log[j].key = key}
          IN IF J = {} THEN \A r \in state : r.key # key
             ELSE \E r \in state : /\ r.key = key
                                    /\ r.expire_at = state_log[Max(J)].at + state_log[Max(J)].ttl

(* a key updated twice and read back before the second update expires *)
C23_Witness ==
    /\ Len(state_log) = 3
    /\ state_log[1].op = "update_state" /\ state_log[2].op = "update_state"
    /\ state_log[1].key = state_log[2].key /\ state_log[1].value # state_log[2].value
    /\ state_log[1].at + state_log[1].ttl < state_log[3].at
    /\ state_log[3].op = "get_state" /\ state_log[3].key = state_log[1].key
    /\ state_log[3].ret = state_log[2].value /\ state_log[3].ret # None
    /\ Cardinality(state) = 1

(* C25: a message for which is_unsafe_request is true is answered by
   brain_new with safety_response(). *)
C25_UnsafeRefused ==
    (n_msg # None /\ is_unsafe_request(n_msg))
    => n_ret = "I can't provide step-by-step manufacturing, synthesis, or lab protocols. "
               \o "I can provide ingredients, official label information, dosing "
               \o "calculations, general pharmaceutics education, and regulatory references."

(* C26: the typing thread of every handled message terminates, also when
   chatbot_response raised, and a thread that has terminated saw its stop
   event set. *)
C26_TypingStops ==
    /\ [](\A m \in 1..MaxMsgs : ty_pc[m] = "exit" => stop_evt[m])
    /\ \A m \in 1..MaxMsgs : (ty_pc[m] # "off") ~> (ty_pc[m] = "exit")

(* is bot the response one of the stubs gives to the message user? *)
ResponseTo(user, bot) ==
    bot \in {p \o user : p \in {"Brain_new processed: ", "Echo: ",
                                  "Echo from brain_new: ", "I got your message: "}}

(* C27: whenever the lock is free or has just been taken, so that a thread
   holding it looks at shared_data before writing, last_bot_response is the
   response to last_user_message (or neither has been written). *)
C27_PairUnderLock ==
    (lock = 0 \/ th_pc[lock] = "write_user")
    => \/ /\ shared_data.last_user_message = None
          /\ shared_data.last_bot_response = None
       \/ ResponseTo(shared_data.last_user_message, shared_data.last_bot_response)

(* two threads with different messages have both written under the lock *)
C27_Witness ==
    /\ th_pc[1] = "done" /\ th_pc[2] = "done" /\ th_msg[1] # th_msg[2]
    /\ lock = 0
    /\ shared_data.last_user_message \in ThreadMessages
    /\ ResponseTo(shared_data.last_user_message, shared_data.last_bot_response)

(* C28: when every thread that ran the update_state-based stub has
   finished, the stored last_bot_response is the response to the stored
   last_user_message. *)
C28_StoredPair ==
    (/\ \A t \in 1..MaxThreads : th_pc[t] \in {"idle", "stored", "done"}
     /\ \E t \in 1..MaxThreads : th_pc[t] = "stored")
    => \E u \in get_state(state, "last_user_message", now),
          b \in get_state(state, "last_bot_response", now) : ResponseTo(u, b)

(* no thread has stopped on a KeyError *)
NoKeyError == \A t \in 1..MaxThreads : rc_pc[t] # "KeyError"

(* the del of a get has removed only entries that had expired *)
NoLostEntry == ~rc_lost

(* C29: no thread calling get, set or delete of one TTLCache on one key
   with no lock raises KeyError, and the del of a get never removes an entry
   that has not expired. *)
C29_RaceFree == NoKeyError /\ NoLostEntry

(* C30: given the same calls at the same clock readings, the TTLCache of
   brain.py and the one of brain_new.py return the same from every call, a
   get at the very instant of expiry included. *)
C30_SameReturns == tw_ret[1] = tw_ret[2]

====
